---- MODULE Spec2Model ----
(***************************************************************************)
(* Content-metadata and recommendation subsystem of the file-store bot     *)
(* (src/ai_helper.py) together with the simple_bot.py handlers that call   *)
(* it.  Python dicts are functions (the key set is the DOMAIN); the        *)
(* catalog stored_files, whose iteration order matters, is a sequence of   *)
(* entries in insertion order.  None and the empty string are both falsy   *)
(* in the code's tests: an absent file_id is 0, an absent category is "",  *)
(* absent tags are <<>>, an absent explicit_preference is the empty dict.  *)
(***************************************************************************)
EXTENDS Integers, Sequences, FiniteSets, TLC

VARIABLES
    stored_files,      \* simple_bot.stored_files: entries in insertion order
    file_metadata,     \* ai_helper.file_metadata: file id -> metadata record
    user_preferences,  \* ai_helper.user_preferences: str(user id) -> record
    clock,             \* datetime.now(), a logical time
    ret,               \* what the last read-only handler obtained
    nops,              \* number of mutating calls made so far
    ops_limit,         \* number of mutating calls the behaviour may make
    disk,              \* the JSON files under data/, by path
    io_faults,         \* number of saves that may still fail in the behaviour
    pc,                \* where simple_bot.main is
    offset,            \* main's offset; 0 is None
    batch,             \* the part of updates["result"] not yet iterated over
    inflight,          \* the calls of handle_update in progress
    log                \* history: starts, returns and raises of handle_update

vars == <<stored_files, file_metadata, user_preferences, clock, ret, nops,
          ops_limit, disk, io_faults, pc, offset, batch, inflight, log>>

\* the variables of the polling loop
pollvars == <<pc, offset, batch, inflight, log>>

(***************************************************************************)
(* Bounds of the model.                                                    *)
(***************************************************************************)
MaxOps == 2          \* mutating calls per behaviour of Spec
MaxRecentOps == 2    \* mutating calls per behaviour of SpecRecent
MaxCount == 3        \* largest count argument tried in the claims
MaxUploads == 2      \* uploads per behaviour of SpecStore

(***************************************************************************)
(* Program constants.                                                      *)
(***************************************************************************)
RecentLimit == 10        \* recent[:10]
AccessWeight == 1        \* + 1 on a file access
InterestWeight == 3      \* + 3 on an explicit category / tag interest
CategoryMatchScore == 5  \* score += 5
TagMatchScore == 2       \* len(common_tags) * 2
RecommendCount == 8      \* get_recommendations(..., count=8)
SimilarCount == 2        \* get_similar_files(..., count=2)
TagLimit == 5             \* result.get("tags", [])[:5]

DEFAULT_CATEGORIES ==
    <<"Documents", "Images", "Videos", "Audio", "Archives",
      "Presentations", "Spreadsheets", "Code", "Books", "Other">>

(***************************************************************************)
(* Python built-ins used by the code.                                      *)
(***************************************************************************)
Min(a, b) == IF a <= b THEN a ELSE b
Max(a, b) == IF a >= b THEN a ELSE b

Range(s) == {s[i] : i \in 1..Len(s)}

\* x in s, for a list s
InSeq(x, s) == \E i \in 1..Len(s) : s[i] = x

\* s[:n]
Take(s, n) ==
    IF n >= 0 THEN SubSeq(s, 1, Min(n, Len(s)))
    ELSE SubSeq(s, 1, Max(0, Len(s) + n))

\* s.remove(x): drops the first occurrence of x
ListRemove(s, x) ==
    LET i == CHOOSE k \in 1..Len(s) : s[k] = x /\ \A j \in 1..(k - 1) : s[j] # x
    IN  SubSeq(s, 1, i - 1) \o SubSeq(s, i + 1, Len(s))

\* s.insert(0, x)
ListInsertFront(s, x) == <<x>> \o s

EmptyDict == [k \in {} |-> 0]

\* d.get(k, default)
DictGet(d, k, default) == IF k \in DOMAIN d THEN d[k] ELSE default

\* d[k] = v
DictSet(d, k, v) == [x \in (DOMAIN d) \cup {k} |-> IF x = k THEN v ELSE d[x]]

\* an update that replaces the whole mapping
DictUpdate_Replace(d, e) == e

\* d.update(e)
DictUpdate(d, e) ==
    [x \in (DOMAIN d) \cup (DOMAIN e) |-> IF x \in DOMAIN e THEN e[x] ELSE d[x]]

\* str(user_id)
Str(user_id) == ToString(user_id)

(***************************************************************************)
(* Records.                                                                *)
(***************************************************************************)
\* the preference record update_user_preferences creates for a new user
NewUserPrefs ==
    [favorite_categories |-> EmptyDict,
     favorite_tags |-> EmptyDict,
     recently_accessed |-> <<>>,
     explicit_preferences |-> EmptyDict]

\* the metadata record the classifiers build; the "description" of an
\* AI-built record, which only reply texts read, is left out
NewMetadata(category, extension, tags, ai, now) ==
    [category |-> category,
     extension |-> extension,
     tags |-> tags,
     ai_analyzed |-> ai,
     last_accessed |-> 0,
     access_count |-> 0,
     created_at |-> now]

\* file_info of handle_document: it carries its own key as "unique_id".  id is
\* the key it is stored under, file_id the Telegram file of the message;
\* downloads and last_accessed are absent (0) until the first download
DocumentInfo(unique_id, user_id, file_id, name) ==
    [id |-> unique_id, file_id |-> file_id, from_user_id |-> user_id,
     name |-> name, type |-> "document", unique_id |-> unique_id,
     downloads |-> 0, last_accessed |-> 0]

\* file_info of handle_photo / video / audio / genlink: no "unique_id" field
MediaInfo(unique_id, user_id, type, file_id, name) ==
    [id |-> unique_id, file_id |-> file_id, from_user_id |-> user_id,
     name |-> name, type |-> type, unique_id |-> 0,
     downloads |-> 0, last_accessed |-> 0]

\* stored_files[unique_id] = file_info: a new key goes last, an old key keeps
\* its place
CatalogPut(sf, info) ==
    IF \E i \in 1..Len(sf) : sf[i].id = info.id
    THEN [i \in 1..Len(sf) |-> IF sf[i].id = info.id THEN info ELSE sf[i]]
    ELSE Append(sf, info)

\* list(stored_files.keys())
Keys(sf) == [i \in 1..Len(sf) |-> sf[i].id]

\* file_info.get("unique_id", file_id)
MetaId(info) == IF info.unique_id # 0 THEN info.unique_id ELSE info.id

\* stored_files.get(file_id, {}).get("unique_id", file_id)
RefMetaId(sf, file_id) ==
    IF \E i \in 1..Len(sf) : sf[i].id = file_id
    THEN MetaId(sf[CHOOSE i \in 1..Len(sf) : sf[i].id = file_id])
    ELSE file_id

(***************************************************************************)
(* The classifier.  A file name is the sequence of its characters          *)
(* (one-character strings); so is an extension.                            *)
(***************************************************************************)
UpperCase ==
    <<"A", "B", "C", "D", "E", "F", "G", "H", "I", "J", "K", "L", "M", "N",
      "O", "P", "Q", "R", "S", "T", "U", "V", "W", "X", "Y", "Z">>

LowerCase ==
    <<"a", "b", "c", "d", "e", "f", "g", "h", "i", "j", "k", "l", "m", "n",
      "o", "p", "q", "r", "s", "t", "u", "v", "w", "x", "y", "z">>

\* str.lower(), on the letters A..Z
Lower(s) ==
    [i \in 1..Len(s) |->
        IF \E k \in 1..Len(UpperCase) : UpperCase[k] = s[i]
        THEN LowerCase[CHOOSE k \in 1..Len(UpperCase) : UpperCase[k] = s[i]]
        ELSE s[i]]

\* s.split(sep)[-1]: what follows the last sep, all of s when it has none
RECURSIVE LastPiece(_, _)
LastPiece(s, sep) ==
    IF ~InSeq(sep, s) THEN s
    ELSE LET i == CHOOSE k \in 1..Len(s) : s[k] = sep /\ \A j \in 1..(k - 1) : s[j] # sep
         IN  LastPiece(SubSeq(s, i + 1, Len(s)), sep)

\* an extension taken as it is written, without lower-casing it
FileExtension_CaseKept(file_name) ==
    IF InSeq(".", file_name) THEN LastPiece(file_name, ".") ELSE <<>>

\* file_name.split(".")[-1].lower() if "." in file_name else ""
FileExtension(file_name) ==
    IF InSeq(".", file_name) THEN Lower(LastPiece(file_name, ".")) ELSE <<>>

\* the if / elif chain over the extension groups, in its order
ExtensionTable ==
    <<
      [exts |-> {
          <<"p", "d", "f">>,
          <<"d", "o", "c">>,
          <<"d", "o", "c", "x">>,
          <<"t", "x", "t">>,
          <<"r", "t", "f">>},
       category |-> "Documents"],
      [exts |-> {
          <<"j", "p", "g">>,
          <<"j", "p", "e", "g">>,
          <<"p", "n", "g">>,
          <<"g", "i", "f">>,
          <<"b", "m", "p">>,
          <<"s", "v", "g">>,
          <<"w", "e", "b", "p">>},
       category |-> "Images"],
      [exts |-> {
          <<"m", "p", "4">>,
          <<"a", "v", "i">>,
          <<"m", "o", "v">>,
          <<"w", "m", "v">>,
          <<"f", "l", "v">>,
          <<"m", "k", "v">>,
          <<"w", "e", "b", "m">>},
       category |-> "Videos"],
      [exts |-> {
          <<"m", "p", "3">>,
          <<"w", "a", "v">>,
          <<"o", "g", "g">>,
          <<"a", "a", "c">>,
          <<"f", "l", "a", "c">>,
          <<"m", "4", "a">>},
       category |-> "Audio"],
      [exts |-> {
          <<"z", "i", "p">>,
          <<"r", "a", "r">>,
          <<"t", "a", "r">>,
          <<"g", "z">>,
          <<"7", "z">>},
       category |-> "Archives"],
      [exts |-> {
          <<"p", "p", "t">>,
          <<"p", "p", "t", "x">>},
       category |-> "Presentations"],
      [exts |-> {
          <<"x", "l", "s">>,
          <<"x", "l", "s", "x">>,
          <<"c", "s", "v">>},
       category |-> "Spreadsheets"],
      [exts |-> {
          <<"p", "y">>,
          <<"j", "s">>,
          <<"h", "t", "m", "l">>,
          <<"c", "s", "s">>,
          <<"j", "a", "v", "a">>,
          <<"c", "p", "p">>,
          <<"c">>,
          <<"p", "h", "p">>,
          <<"g", "o">>,
          <<"r", "b">>},
       category |-> "Code"],
      [exts |-> {
          <<"e", "p", "u", "b">>,
          <<"m", "o", "b", "i">>,
          <<"a", "z", "w">>,
          <<"a", "z", "w", "3">>,
          <<"f", "b", "2">>},
       category |-> "Books"]
    >>

\* the category of the first group that lists the extension, else "Other"
RECURSIVE ExtensionCategory(_, _)
ExtensionCategory(extension, table) ==
    IF table = <<>> THEN "Other"
    ELSE IF extension \in Head(table).exts THEN Head(table).category
    ELSE ExtensionCategory(extension, Tail(table))

\* analyze_file_name(file_name, file_type) at time now.  Its except branch
\* needs a file_name that is no string, which no caller passes.
analyze_file_name(file_name, file_type, now) ==
    LET extension == FileExtension(file_name)
        category ==
            IF file_type = "photo" THEN "Images"
            ELSE IF file_type = "video" THEN "Videos"
            ELSE IF file_type = "audio" THEN "Audio"
            ELSE IF file_type = "document"
                 THEN ExtensionCategory(extension, ExtensionTable)
            ELSE "Other"
    IN  NewMetadata(category, extension, <<>>, FALSE, now)

\* What the external capability does with one request.  kind: "error" (the
\* call raises: timeout, rate limit, refusal), "text" (the content is not
\* JSON), "array" (JSON, but no object), "object".  The fields of an object
\* are JSON values [t, v]: t is "absent", "null", "number", "string" or
\* "list"; v is the string of a category, the items of a tag list or the
\* characters of a tag string.
JAbsent == [t |-> "absent", v |-> <<>>]
JNull == [t |-> "null", v |-> <<>>]
JNumber == [t |-> "number", v |-> <<>>]
JList(items) == [t |-> "list", v |-> items]
JChars(chars) == [t |-> "string", v |-> chars]

CategoryAbsent == [t |-> "absent", v |-> ""]
CategoryNull == [t |-> "null", v |-> ""]
CategoryString(category) == [t |-> "string", v |-> category]

AiFailure(kind) == [kind |-> kind, category |-> CategoryAbsent, tags |-> JAbsent]
AiObject(category, tags) == [kind |-> "object", category |-> category, tags |-> tags]
AiAnswer(category, tags) == AiObject(CategoryString(category), JList(tags))

\* the try block of analyze_file_with_ai raises: in the call, in json.loads,
\* in result.get (no dict) or in the slice [:5] of a value that has none
AiRaises(response) ==
    \/ response.kind \in {"error", "text", "array"}
    \/ response.kind = "object" /\ response.tags.t \in {"null", "number"}

\* result.get("category", "Other"); null is None, which is falsy like ""
AiCategory(response) ==
    IF response.category.t = "absent" THEN "Other" ELSE response.category.v

\* result.get("tags", [])
AiTags(response) == response.tags.v

\* the value a raised exception is, where a metadata record is expected
Raised == [raised |-> TRUE]

\* an AI analysis that keeps every tag the capability returns
analyze_file_with_ai_AllTags(file_info, api_key, response, now) ==
    IF ~api_key THEN analyze_file_name(file_info.name, file_info.type, now)
    ELSE IF AiRaises(response)
    THEN analyze_file_name(file_info.name, file_info.type, now)
    ELSE NewMetadata(AiCategory(response), FileExtension(file_info.name),
                     AiTags(response), TRUE, now)

\* an AI analysis whose except branch answers with a fixed record instead of
\* the heuristic classifier's
analyze_file_with_ai_FixedFallback(file_info, api_key, response, now) ==
    IF ~api_key THEN analyze_file_name(file_info.name, file_info.type, now)
    ELSE IF AiRaises(response)
    THEN NewMetadata("Other", <<>>, <<>>, FALSE, now)
    ELSE NewMetadata(AiCategory(response), FileExtension(file_info.name),
                     Take(AiTags(response), TagLimit), TRUE, now)

\* analyze_file_with_ai(file_info) at time now, with OPENAI_API_KEY set
\* (api_key) or empty, and the capability answering response
analyze_file_with_ai(file_info, api_key, response, now) ==
    IF ~api_key THEN analyze_file_name(file_info.name, file_info.type, now)
    ELSE IF AiRaises(response)
    THEN analyze_file_name(file_info.name, file_info.type, now)
    ELSE NewMetadata(AiCategory(response), FileExtension(file_info.name),
                     Take(AiTags(response), TagLimit), TRUE, now)

(***************************************************************************)
(* Preference tracker.                                                     *)
(***************************************************************************)
\* a tag update that builds the mapping anew from the tags named
AddTagWeights_OnlyNamed(fav_tags, tags, w) ==
    [t \in Range(tags) |-> DictGet(fav_tags, t, 0) + w]

\* for tag in tags: fav_tags[tag] = fav_tags.get(tag, 0) + w
RECURSIVE AddTagWeights(_, _, _)
AddTagWeights(fav_tags, tags, w) ==
    IF tags = <<>> THEN fav_tags
    ELSE AddTagWeights(
             DictSet(fav_tags, Head(tags), DictGet(fav_tags, Head(tags), 0) + w),
             Tail(tags), w)

\* a weight update that stores the increment instead of adding it
AddCategoryWeight_Overwrite(fav_categories, category, w) ==
    IF category # "" THEN DictSet(fav_categories, category, w) ELSE fav_categories

\* fav[category] = fav.get(category, 0) + w, under `if category:`
AddCategoryWeight(fav_categories, category, w) ==
    IF category # ""
    THEN DictSet(fav_categories, category, DictGet(fav_categories, category, 0) + w)
    ELSE fav_categories

\* a recently_accessed update that keeps one entry too many
PushRecent_KeepEleven(recent, file_id) ==
    LET removed == IF InSeq(file_id, recent) THEN ListRemove(recent, file_id)
                   ELSE recent
    IN  Take(ListInsertFront(removed, file_id), RecentLimit + 1)

\* a recently_accessed update that does not remove the prior occurrence
PushRecent_NoRemove(recent, file_id) ==
    Take(ListInsertFront(recent, file_id), RecentLimit)

\* a recently_accessed update that puts the file last and keeps the tail
PushRecent_Back(recent, file_id) ==
    LET removed == IF InSeq(file_id, recent) THEN ListRemove(recent, file_id)
                   ELSE recent
        all == Append(removed, file_id)
    IN  SubSeq(all, Max(1, Len(all) - RecentLimit + 1), Len(all))

\* the recently_accessed update of a file access
PushRecent(recent, file_id) ==
    LET removed == IF InSeq(file_id, recent) THEN ListRemove(recent, file_id)
                   ELSE recent
    IN  Take(ListInsertFront(removed, file_id), RecentLimit)

\* update_user_preferences(user_id, file_id, category, tags,
\* explicit_preference) on the stores up (user_preferences) and fm
\* (file_metadata); the value is the new user_preferences.  The access branch
\* assigns the file's category to the local name `category`, which the
\* interest branch then reads.
update_user_preferences(up, fm, user_id, file_id, category, tags, explicit_preference) ==
    LET key == Str(user_id)
        up0 == IF key \notin DOMAIN up THEN DictSet(up, key, NewUserPrefs) ELSE up
        p0 == up0[key]
        accessed == file_id # 0 /\ file_id \in DOMAIN fm
        metadata == fm[file_id]
        p1 == IF accessed
              THEN [p0 EXCEPT
                      !.recently_accessed = PushRecent(@, file_id),
                      !.favorite_categories =
                          AddCategoryWeight(@, metadata.category, AccessWeight),
                      !.favorite_tags = AddTagWeights(@, metadata.tags, AccessWeight)]
              ELSE p0
        category1 == IF accessed THEN metadata.category ELSE category
        p2 == [p1 EXCEPT
                 !.favorite_categories = AddCategoryWeight(@, category1, InterestWeight),
                 !.favorite_tags = AddTagWeights(@, tags, InterestWeight),
                 !.explicit_preferences = DictUpdate(@, explicit_preference)]
    IN  DictSet(up0, key, p2)

\* an access tracker that starts a record for a file that has none
track_file_access_CreatesRecord(fm, file_id, now) ==
    LET metadata == DictGet(fm, file_id, NewMetadata("Other", <<>>, <<>>, FALSE, now))
    IN  DictSet(fm, file_id,
                [metadata EXCEPT !.last_accessed = now, !.access_count = @ + 1])

\* track_file_access(file_id) on the store fm at time now
track_file_access(fm, file_id, now) ==
    IF file_id \in DOMAIN fm
    THEN DictSet(fm, file_id,
                 [fm[file_id] EXCEPT !.last_accessed = now,
                                     !.access_count = @ + 1])
    ELSE fm

(***************************************************************************)
(* Ranking: recommender, similarity finder, categorizer.  They read the    *)
(* module globals file_metadata and user_preferences, as the code does.    *)
(***************************************************************************)
\* a sort that is descending but turns ties around, as sorting ascending and
\* reversing the list would
RECURSIVE sorted_by_score_TiesReversed(_)
sorted_by_score_TiesReversed(items) ==
    IF items = <<>> THEN <<>>
    ELSE LET i == CHOOSE k \in 1..Len(items) :
                      /\ \A j \in 1..Len(items) : items[j][2] <= items[k][2]
                      /\ \A j \in (k + 1)..Len(items) : items[j][2] < items[k][2]
         IN  <<items[i]>> \o
             sorted_by_score_TiesReversed(
                 SubSeq(items, 1, i - 1) \o SubSeq(items, i + 1, Len(items)))

\* sorted(scores.items(), key=lambda x: x[1], reverse=True) on a sequence of
\* <<file_id, score>> pairs: descending by score, and stable (pairs of equal
\* score keep their order, also under reverse=True)
RECURSIVE sorted_by_score(_)
sorted_by_score(items) ==
    IF items = <<>> THEN <<>>
    ELSE LET i == CHOOSE k \in 1..Len(items) :
                      /\ \A j \in 1..Len(items) : items[j][2] <= items[k][2]
                      /\ \A j \in 1..(k - 1) : items[j][2] < items[k][2]
         IN  <<items[i]>> \o
             sorted_by_score(SubSeq(items, 1, i - 1) \o SubSeq(items, i + 1, Len(items)))

\* [file_id for file_id, _ in sorted_files[:count]]
TopIds(sorted_files, count) ==
    LET top == Take(sorted_files, count)
    IN  [i \in 1..Len(top) |-> top[i][1]]

\* for tag in tags: if tag in fav_tags: score += fav_tags[tag]
RECURSIVE SumTagWeights(_, _)
SumTagWeights(tags, fav_tags) ==
    IF tags = <<>> THEN 0
    ELSE DictGet(fav_tags, Head(tags), 0) + SumTagWeights(Tail(tags), fav_tags)

\* the score get_recommendations gives one catalog entry
RecommendScore(info, fav_categories, fav_tags) ==
    IF MetaId(info) \in DOMAIN file_metadata
    THEN LET metadata == file_metadata[MetaId(info)]
         IN  (IF metadata.category # "" /\ metadata.category \in DOMAIN fav_categories
              THEN fav_categories[metadata.category] ELSE 0)
             + SumTagWeights(metadata.tags, fav_tags)
    ELSE 0

\* a scoring loop that does not skip the recently accessed files
NotRecent_NoSkip(sf, recent_files) == sf

\* the entries the scoring loop keeps: `if file_id in recent_files: continue`
NotRecent(sf, recent_files) ==
    LET Keep(info) == ~InSeq(info.id, recent_files)
    IN  SelectSeq(sf, Keep)

\* a cold start that forgets to cut the key list to count
get_recommendations_ColdUncut(user_id, sf, count) ==
    IF Str(user_id) \notin DOMAIN user_preferences
    THEN Keys(sf)
    ELSE LET user_prefs == user_preferences[Str(user_id)]
             scored == NotRecent(sf, user_prefs.recently_accessed)
             file_scores ==
                 [i \in 1..Len(scored) |->
                     <<scored[i].id,
                       RecommendScore(scored[i], user_prefs.favorite_categories,
                                      user_prefs.favorite_tags)>>]
         IN  TopIds(sorted_by_score(file_scores), count)

get_recommendations(user_id, sf, count) ==
    IF Str(user_id) \notin DOMAIN user_preferences
    THEN Take(Keys(sf), Min(count, Len(sf)))
    ELSE LET user_prefs == user_preferences[Str(user_id)]
             scored == NotRecent(sf, user_prefs.recently_accessed)
             file_scores ==
                 [i \in 1..Len(scored) |->
                     <<scored[i].id,
                       RecommendScore(scored[i], user_prefs.favorite_categories,
                                      user_prefs.favorite_tags)>>]
         IN  TopIds(sorted_by_score(file_scores), count)

\* a score that weighs a shared tag like a shared category
SimilarityScore_TagAsCategory(metadata, ref_metadata) ==
    (IF metadata.category = ref_metadata.category THEN CategoryMatchScore ELSE 0)
    + Cardinality(Range(ref_metadata.tags) \cap Range(metadata.tags))
      * CategoryMatchScore

\* the score get_similar_files gives one entry's metadata against the
\* reference's
SimilarityScore(metadata, ref_metadata) ==
    (IF metadata.category = ref_metadata.category THEN CategoryMatchScore ELSE 0)
    + Cardinality(Range(ref_metadata.tags) \cap Range(metadata.tags)) * TagMatchScore

\* a similarity loop that does not skip the reference file
SimilarCandidates_KeepSelf(sf, file_id) ==
    LET Keep(info) == MetaId(info) \in DOMAIN file_metadata
    IN  SelectSeq(sf, Keep)

\* the entries the similarity loop scores: not the reference, and with metadata
SimilarCandidates(sf, file_id) ==
    LET Keep(info) == info.id # file_id /\ MetaId(info) \in DOMAIN file_metadata
    IN  SelectSeq(sf, Keep)

\* a similarity finder that answers a reference without metadata the way the
\* recommender answers a cold start
get_similar_files_ColdFallback(file_id, sf, count) ==
    LET meta_id == RefMetaId(sf, file_id)
    IN  IF meta_id \notin DOMAIN file_metadata
        THEN Take(Keys(sf), Min(count, Len(sf)))
        ELSE LET scored == SimilarCandidates(sf, file_id)
                 similarity_scores ==
                     [i \in 1..Len(scored) |->
                         <<scored[i].id,
                           SimilarityScore(file_metadata[MetaId(scored[i])],
                                           file_metadata[meta_id])>>]
             IN  TopIds(sorted_by_score(similarity_scores), count)

get_similar_files(file_id, sf, count) ==
    LET meta_id == RefMetaId(sf, file_id)
    IN  IF meta_id \notin DOMAIN file_metadata THEN <<>>
        ELSE LET scored == SimilarCandidates(sf, file_id)
                 similarity_scores ==
                     [i \in 1..Len(scored) |->
                         <<scored[i].id,
                           SimilarityScore(file_metadata[MetaId(scored[i])],
                                           file_metadata[meta_id])>>]
             IN  TopIds(sorted_by_score(similarity_scores), count)

\* a categorizer that files a record's category verbatim, recognized or not
CategoryBucket_PassThrough(info) ==
    IF MetaId(info) \in DOMAIN file_metadata
    THEN file_metadata[MetaId(info)].category
    ELSE "Other"

\* the category organize_files_by_category files one entry under
CategoryBucket(info) ==
    LET category == IF MetaId(info) \in DOMAIN file_metadata
                    THEN file_metadata[MetaId(info)].category
                    ELSE "Other"
    IN  IF category \in Range(DEFAULT_CATEGORIES) THEN category ELSE "Other"

\* a categorizer that puts each file at the front of its category's list
organize_files_by_category_Prepend(sf) ==
    LET InBucket(cat) ==
            LET Keep(info) == CategoryBucket(info) = cat
                ids == Keys(SelectSeq(sf, Keep))
            IN  [i \in 1..Len(ids) |-> ids[Len(ids) + 1 - i]]
        nonempty == {cat \in Range(DEFAULT_CATEGORIES) : InBucket(cat) # <<>>}
    IN  [cat \in nonempty |-> InBucket(cat)]

organize_files_by_category(sf) ==
    LET InBucket(cat) ==
            LET Keep(info) == CategoryBucket(info) = cat
            IN  Keys(SelectSeq(sf, Keep))
        nonempty == {cat \in Range(DEFAULT_CATEGORIES) : InBucket(cat) # <<>>}
    IN  [cat \in nonempty |-> InBucket(cat)]

(***************************************************************************)
(* Store handlers of simple_bot.py, as functions of the stores             *)
(* w = [sf, fm, up, clock].                                                *)
(***************************************************************************)
\* handle_document for a message of user_id with the Telegram file file_id
\* named file_name, when uuid4 gives unique_id and the capability answers
\* response: the file is stored under unique_id, the classifier's record is
\* put in file_metadata, and the upload counts as an access of the uploader.
\* An exception of the analysis is logged and leaves the two stores alone.
handle_document(w, user_id, file_id, file_name, unique_id, api_key, response) ==
    LET file_info == DocumentInfo(unique_id, user_id, file_id, file_name)
        metadata == analyze_file_with_ai(file_info, api_key, response, w.clock)
        fm1 == IF metadata = Raised THEN w.fm ELSE DictSet(w.fm, unique_id, metadata)
        up1 == IF metadata = Raised THEN w.up
               ELSE update_user_preferences(w.up, fm1, user_id, unique_id, "",
                                            <<>>, EmptyDict)
    IN  [sf |-> CatalogPut(w.sf, file_info),
         fm |-> fm1,
         up |-> up1,
         clock |-> w.clock + 1]

\* the file_name handle_photo and handle_video_message give, and the default
\* of handle_audio_message
MediaName(type) ==
    IF type = "photo" THEN <<"p", "h", "o", "t", "o", ".", "j", "p", "g">>
    ELSE IF type = "video" THEN <<"v", "i", "d", "e", "o", ".", "m", "p", "4">>
    ELSE <<"a", "u", "d", "i", "o", ".", "m", "p", "3">>

\* handle_photo, handle_video_message, handle_audio_message and
\* handle_genlink_command: the file is stored, nothing is classified
handle_media(w, user_id, file_id, unique_id, type) ==
    [w EXCEPT !.sf = CatalogPut(@, MediaInfo(unique_id, user_id, type, file_id,
                                             MediaName(type)))]

\* handle_download of the link dl_<file_id> by user_id: an unknown file_id is
\* answered "not found"; else the entry counts the download, the access is
\* tracked and the user's preferences are updated
handle_download(w, user_id, file_id) ==
    IF ~InSeq(file_id, Keys(w.sf)) THEN w
    ELSE LET i == CHOOSE k \in 1..Len(w.sf) : w.sf[k].id = file_id
             unique_id == MetaId(w.sf[i])
             fm1 == track_file_access(w.fm, unique_id, w.clock)
         IN  [sf |-> [w.sf EXCEPT ![i].downloads = @ + 1,
                                  ![i].last_accessed = w.clock],
              fm |-> fm1,
              up |-> update_user_preferences(w.up, fm1, user_id, unique_id, "",
                                             <<>>, EmptyDict),
              clock |-> w.clock + 1]

EmptyStores == [sf |-> <<>>, fm |-> EmptyDict, up |-> EmptyDict, clock |-> 1]

\* OPENAI_API_KEY is set in the runs of the model that store files
ApiKeySet == TRUE

StoreOne(w, u) ==
    IF u.type = "document"
    THEN handle_document(w, u.user_id, u.file_id, u.name, u.unique_id, ApiKeySet,
                         u.response)
    ELSE handle_media(w, u.user_id, u.file_id, u.unique_id, u.type)

\* the stores after the uploads of a list, in order, starting empty
RECURSIVE Replay(_, _)
Replay(w, uploads) ==
    IF uploads = <<>> THEN w ELSE Replay(StoreOne(w, Head(uploads)), Tail(uploads))

(***************************************************************************)
(* Durable storage: the JSON files of simple_bot.py and ai_helper.py.  A   *)
(* file is missing, unreadable, holds text that is no JSON document (an    *)
(* empty or half-written file), or holds the JSON text of a value.         *)
(***************************************************************************)
FILES_DATA == "data/files.json"
FILE_METADATA == "data/file_metadata.json"
USER_PREFERENCES == "data/user_preferences.json"
Paths == {FILES_DATA, FILE_METADATA, USER_PREFERENCES}

FileMissing == [state |-> "missing", data |-> <<>>]
FileUnreadable == [state |-> "unreadable", data |-> <<>>]
FileMalformed == [state |-> "malformed", data |-> <<>>]

\* json.dump(obj, f): the file holds the JSON text of obj.  Every key of the
\* three stores is a str and every value a str, an int, a bool, None, a list
\* or a dict of these, so the text is the one json.load reads back as an
\* equal object; data is that object.
json_dump(obj) == [state |-> "json", data |-> obj]

\* how a save ends: written; an exception before the file is opened
\* (os.makedirs or open raises); an exception after open(path, 'w') has
\* truncated the file (json.dump or the closing flush raises)
SaveOutcomes == {"ok", "no_open", "torn"}

\* a save that puts the write off (a batching store)
save_Deferred(file, obj, outcome) == file

\* save_files_data / save_file_metadata / save_user_preferences:
\* try: with open(path, 'w') as f: json.dump(obj, f)  except Exception: log
save(file, obj, outcome) ==
    IF outcome = "ok" THEN json_dump(obj)
    ELSE IF outcome = "torn" THEN FileMalformed
    ELSE file

\* load_files_data / load_file_metadata / load_user_preferences: the global
\* is assigned when the file exists and json.load returns; else it keeps
\* its value (an exception is logged)
load(file, store) == IF file.state = "json" THEN file.data ELSE store

\* a load_data that a failing load ends: the exception of the first file
\* that cannot be read or parsed escapes, the later files are not loaded
load_data_StopsAtFailure(w, d) ==
    LET Fails(path) == d[path].state \in {"unreadable", "malformed"}
    IN  [w EXCEPT
           !.sf = load(d[FILES_DATA], @),
           !.fm = IF Fails(FILES_DATA) THEN @ ELSE load(d[FILE_METADATA], @),
           !.up = IF Fails(FILES_DATA) \/ Fails(FILE_METADATA) THEN @
                  ELSE load(d[USER_PREFERENCES], @)]

\* simple_bot.load_data: load_files_data, then ai_helper.load_data, which is
\* load_file_metadata and load_user_preferences
load_data(w, d) ==
    [w EXCEPT !.sf = load(d[FILES_DATA], @),
              !.fm = load(d[FILE_METADATA], @),
              !.up = load(d[USER_PREFERENCES], @)]

\* the store a path is the file of
InMemory(path, sf, fm, up) ==
    IF path = FILES_DATA THEN sf ELSE IF path = FILE_METADATA THEN fm ELSE up

\* the files as saves without failure leave them
Flushed(sf, fm, up) == [path \in Paths |-> json_dump(InMemory(path, sf, fm, up))]

Failures(outcomes) == Cardinality({path \in DOMAIN outcomes : outcomes[path] # "ok"})

\* the saves of a handler: each path of paths is written from its store as
\* the handler leaves it (no handler changes a store after saving it)
Save(paths) ==
    \E outcomes \in [paths -> IF io_faults > 0 THEN SaveOutcomes ELSE {"ok"}] :
        /\ Failures(outcomes) <= io_faults
        /\ disk' = [path \in Paths |->
                       IF path \in paths
                       THEN save(disk[path],
                                 InMemory(path, stored_files', file_metadata',
                                          user_preferences'),
                                 outcomes[path])
                       ELSE disk[path]]
        /\ io_faults' = io_faults - Failures(outcomes)

\* main outside its loop body: no update fetched, none being handled
PollIdle ==
    /\ pc = "poll"
    /\ offset = 0
    /\ batch = <<>>
    /\ inflight = <<>>
    /\ log = <<>>

(***************************************************************************)
(* The population of the model: two users and the uploads made before the  *)
(* behaviours start.  Alice uploaded the documents (so she starts with a   *)
(* preference record), Carol the photo (so she starts with none).          *)
(***************************************************************************)
UserIds == <<7, 9>>
Alice == UserIds[1]
Carol == UserIds[2]
Users == {Alice, Carol}

\* file names: without an extension, of a code file, of a document
NamePlain == <<"n", "o", "t", "e", "s">>
NamePy == <<"a", ".", "p", "y">>
NamePdf == <<"r", "e", "p", "o", "r", "t", ".", "p", "d", "f">>

\* the capability is out of reach: the heuristic classifier decides
Unavailable == AiFailure("error")

\* the upload of Telegram file file_id, stored under unique_id
Upload(type, user_id, file_id, unique_id, name, response) ==
    [type |-> type, user_id |-> user_id, file_id |-> file_id,
     unique_id |-> unique_id, name |-> name, response |-> response]

\* the first catalog: documents of Alice with a shared category, shared tags
\* and an unrecognized category around a photo of Carol
Uploads ==
    << Upload("document", Alice, 1, 3, NamePlain,
              AiAnswer("Code", <<"work", "draft">>)),
       Upload("photo", Carol, 2, 1, MediaName("photo"), Unavailable),
       Upload("document", Alice, 3, 4, NamePlain, AiAnswer("Weird", <<"work">>)),
       Upload("document", Alice, 4, 2, NamePy, Unavailable),
       Upload("document", Alice, 5, 6, NamePlain, AiAnswer("Books", <<"final">>)),
       Upload("document", Alice, 6, 5, NamePlain,
              AiAnswer("Code", <<"draft", "work", "final">>)) >>

\* the second catalog: both users upload documents, so both start with a
\* preference record
Uploads2 ==
    << Upload("video", Alice, 1, 2, MediaName("video"), Unavailable),
       Upload("document", Carol, 2, 1, NamePlain,
              AiAnswer("Images", <<"vacation", "beach">>)),
       Upload("document", Carol, 3, 3, NamePlain,
              AiAnswer("Images", <<"vacation", "friends">>)),
       Upload("document", Alice, 4, 6, NamePlain, Unavailable),
       Upload("audio", Carol, 5, 4, MediaName("audio"), Unavailable),
       Upload("document", Alice, 6, 5, NamePlain,
              AiAnswer("Audio", <<"beach", "vacation", "work">>)) >>

UploadLists == {Uploads, Uploads2}

\* the file identifiers in use: the keys of stored_files
FileIds == Range(Keys(stored_files))

\* arguments the calls of the model are made with
InterestArgs ==
    { [category |-> "Books", tags |-> <<>>],
      [category |-> "", tags |-> <<"work">>],
      [category |-> "Code", tags |-> <<"work", "new">>] }

ExplicitArgs ==
    { [k \in {"lang"} |-> "en"],
      [k \in {"lang", "theme"} |-> IF k = "lang" THEN "fr" ELSE "dark"] }

\* file_id of the calls that give every argument, and of track_file_access:
\* the first two files stored (in Uploads a document and a photo, which has
\* no metadata record)
FirstFileIds == {stored_files[i].id : i \in 1..Min(2, Len(stored_files))}

NoRet == [op |-> "none", arg |-> 0, val |-> <<>>]

Init ==
    \E uploads \in UploadLists :
    \E w \in {Replay(EmptyStores, uploads)} :
        /\ stored_files = w.sf
        /\ file_metadata = w.fm
        /\ user_preferences = w.up
        /\ clock = w.clock
        /\ ret = NoRet
        /\ nops = 0
        /\ ops_limit = MaxOps
        /\ disk = Flushed(stored_files, file_metadata, user_preferences)
        /\ io_faults = 0
        /\ PollIdle

(***************************************************************************)
(* Actions: the calls of the preference tracker and of track_file_access,  *)
(* and the handlers that read the rankings.                                *)
(***************************************************************************)
\* update_user_preferences(user_id, file_id)
RecordAccess(user_id, file_id) ==
    /\ nops < ops_limit
    /\ user_preferences' =
           update_user_preferences(user_preferences, file_metadata, user_id,
                                   file_id, "", <<>>, EmptyDict)
    /\ nops' = nops + 1
    /\ ret' = NoRet
    /\ UNCHANGED <<stored_files, file_metadata, clock, ops_limit, pollvars>>
    /\ Save({USER_PREFERENCES})

\* update_user_preferences(user_id, category=..., tags=...)
RecordInterest(user_id, category, tags) ==
    /\ nops < ops_limit
    /\ user_preferences' =
           update_user_preferences(user_preferences, file_metadata, user_id,
                                   0, category, tags, EmptyDict)
    /\ nops' = nops + 1
    /\ ret' = NoRet
    /\ UNCHANGED <<stored_files, file_metadata, clock, ops_limit, pollvars>>
    /\ Save({USER_PREFERENCES})

\* update_user_preferences(user_id, explicit_preference=...)
SetExplicit(user_id, explicit_preference) ==
    /\ nops < ops_limit
    /\ user_preferences' =
           update_user_preferences(user_preferences, file_metadata, user_id,
                                   0, "", <<>>, explicit_preference)
    /\ nops' = nops + 1
    /\ ret' = NoRet
    /\ UNCHANGED <<stored_files, file_metadata, clock, ops_limit, pollvars>>
    /\ Save({USER_PREFERENCES})

\* update_user_preferences with every argument given at once
UpdateMixed(user_id, file_id, category, tags, explicit_preference) ==
    /\ nops < ops_limit
    /\ user_preferences' =
           update_user_preferences(user_preferences, file_metadata, user_id,
                                   file_id, category, tags, explicit_preference)
    /\ nops' = nops + 1
    /\ ret' = NoRet
    /\ UNCHANGED <<stored_files, file_metadata, clock, ops_limit, pollvars>>
    /\ Save({USER_PREFERENCES})

\* track_file_access(file_id)
TrackFileAccess(file_id) ==
    /\ nops < ops_limit
    /\ file_metadata' = track_file_access(file_metadata, file_id, clock)
    /\ clock' = clock + 1
    /\ nops' = nops + 1
    /\ ret' = NoRet
    /\ UNCHANGED <<stored_files, user_preferences, ops_limit, pollvars>>
    /\ Save(IF file_id \in DOMAIN file_metadata THEN {FILE_METADATA} ELSE {})

\* handle_recommend_command: get_recommendations(user_id, stored_files, count=8)
HandleRecommendCommand(user_id) ==
    /\ ret' = [op |-> "recommend", arg |-> user_id,
               val |-> get_recommendations(user_id, stored_files, RecommendCount)]
    /\ UNCHANGED <<stored_files, file_metadata, user_preferences, clock, nops,
                   ops_limit, disk, io_faults, pollvars>>

\* the user_files of handle_files_command and handle_category_command
UserFiles(sf, user_id) ==
    LET Mine(info) == info.from_user_id = user_id
    IN  SelectSeq(sf, Mine)

\* handle_files_command: organize_files_by_category(user_files), unless the
\* user has stored nothing
HandleFilesCommand(user_id) ==
    /\ UserFiles(stored_files, user_id) # <<>>
    /\ ret' = [op |-> "files", arg |-> user_id,
               val |-> organize_files_by_category(UserFiles(stored_files, user_id))]
    /\ UNCHANGED <<stored_files, file_metadata, user_preferences, clock, nops,
                   ops_limit, disk, io_faults, pollvars>>

\* handle_category_command from line 486 on, found_category being the fixed
\* category the name given matches without regard to case: the user's files
\* whose metadata record has that category.  (A name that matches no
\* category is answered without a listing.)
handle_category_command(user_id, found_category) ==
    LET InCategory(info) ==
            /\ MetaId(info) \in DOMAIN file_metadata
            /\ file_metadata[MetaId(info)].category = found_category
    IN  Keys(SelectSeq(UserFiles(stored_files, user_id), InCategory))

\* the categories browsed in the model
BrowsedCategories == {"Other", "Code", "Images"}

HandleCategoryCommand(user_id, found_category) ==
    /\ ret' = [op |-> "category", arg |-> <<user_id, found_category>>,
               val |-> handle_category_command(user_id, found_category)]
    /\ UNCHANGED <<stored_files, file_metadata, user_preferences, clock, nops,
                   ops_limit, disk, io_faults, pollvars>>

\* a similarity lookup that counts as an access of the reference file
HandleSimilar_Tracking(file_id) ==
    /\ nops < ops_limit
    /\ ret' = [op |-> "similar", arg |-> file_id,
               val |-> get_similar_files(file_id, stored_files, SimilarCount)]
    /\ file_metadata' = track_file_access(file_metadata, file_id, clock)
    /\ nops' = nops + 1
    /\ UNCHANGED <<stored_files, user_preferences, clock, ops_limit, disk,
                   io_faults, pollvars>>

\* the tail of handle_download: get_similar_files(unique_id, stored_files, count=2)
HandleSimilar(file_id) ==
    /\ ret' = [op |-> "similar", arg |-> file_id,
               val |-> get_similar_files(file_id, stored_files, SimilarCount)]
    /\ UNCHANGED <<stored_files, file_metadata, user_preferences, clock, nops,
                   ops_limit, disk, io_faults, pollvars>>

Next ==
    \/ \E u \in Users, f \in FileIds : RecordAccess(u, f)
    \/ \E u \in Users, a \in InterestArgs : RecordInterest(u, a.category, a.tags)
    \/ \E u \in Users, e \in ExplicitArgs : SetExplicit(u, e)
    \/ \E u \in Users, f \in FirstFileIds :
           UpdateMixed(u, f, "Books", <<"final">>, [k \in {"lang"} |-> "en"])
    \/ \E f \in FirstFileIds : TrackFileAccess(f)
    \/ \E u \in Users : HandleRecommendCommand(u)
    \/ \E u \in Users : HandleFilesCommand(u)
    \/ \E f \in FileIds : HandleSimilar(f)

Spec == Init /\ [][Next]_vars

(***************************************************************************)
(* SpecStore: the bot from its start, with the store handlers as actions.  *)
(* The stores start empty, or as the first uploads of Uploads leave them.  *)
(***************************************************************************)
\* what the capability answers for the documents uploaded: a category with
\* tags, an unrecognized category, or nothing (the heuristic record results)
StoreResponses ==
    { AiAnswer("Code", <<"work", "draft">>),
      AiAnswer("Weird", <<"work">>),
      Unavailable }

MediaTypes == {"photo"}

\* str(uuid.uuid4())[:8]: an identifier not in use, or (eight hex digits can
\* repeat) the key of the first file stored
NewIds ==
    {CHOOSE n \in 1..(Len(stored_files) + 1) : n \notin FileIds}
    \cup {stored_files[i].id : i \in 1..Min(1, Len(stored_files))}

\* the Telegram file of an incoming message: one not seen before
IncomingFile == Len(stored_files) + nops + 1

Stores == [sf |-> stored_files, fm |-> file_metadata, up |-> user_preferences,
           clock |-> clock]

HandleDocument(user_id, file_name, unique_id, response) ==
    /\ nops < ops_limit
    /\ LET w == handle_document(Stores, user_id, IncomingFile, file_name,
                                unique_id, ApiKeySet, response)
       IN  /\ stored_files' = w.sf
           /\ file_metadata' = w.fm
           /\ user_preferences' = w.up
           /\ clock' = w.clock
    /\ nops' = nops + 1
    /\ ret' = NoRet
    /\ UNCHANGED <<ops_limit, pollvars>>
    /\ Save(Paths)

HandleMedia(user_id, unique_id, type) ==
    /\ nops < ops_limit
    /\ stored_files' =
           handle_media(Stores, user_id, IncomingFile, unique_id, type).sf
    /\ nops' = nops + 1
    /\ ret' = NoRet
    /\ UNCHANGED <<file_metadata, user_preferences, clock, ops_limit, pollvars>>
    /\ Save({FILES_DATA})

\* handle_download; ret is what its get_similar_files call gets, which reads
\* the keys, categories and tags only: they are as before the download
HandleDownload(user_id, file_id) ==
    /\ nops < ops_limit
    /\ LET w == handle_download(Stores, user_id, file_id)
       IN  /\ stored_files' = w.sf
           /\ file_metadata' = w.fm
           /\ user_preferences' = w.up
           /\ clock' = w.clock
    /\ nops' = nops + 1
    /\ ret' = IF file_id \in FileIds
              THEN [op |-> "similar",
                    arg |-> RefMetaId(stored_files, file_id),
                    val |-> get_similar_files(RefMetaId(stored_files, file_id),
                                              stored_files, SimilarCount)]
              ELSE NoRet
    /\ UNCHANGED <<ops_limit, pollvars>>
    /\ Save(IF file_id \notin FileIds THEN {}
            ELSE IF RefMetaId(stored_files, file_id) \in DOMAIN file_metadata
            THEN Paths
            ELSE {FILES_DATA, USER_PREFERENCES})

SeedLengths == {0, 4}

InitStore ==
    \E k \in SeedLengths :
    \E w \in {Replay(EmptyStores, SubSeq(Uploads, 1, k))} :
        /\ stored_files = w.sf
        /\ file_metadata = w.fm
        /\ user_preferences = w.up
        /\ clock = w.clock
        /\ ret = NoRet
        /\ nops = 0
        /\ ops_limit = MaxUploads
        /\ disk = Flushed(stored_files, file_metadata, user_preferences)
        /\ io_faults = 0
        /\ PollIdle

NextStore ==
    \/ \E u \in Users, id \in NewIds, response \in StoreResponses :
           HandleDocument(u, NamePlain, id, response)
    \/ \E u \in Users, id \in NewIds, type \in MediaTypes : HandleMedia(u, id, type)
    \/ \E u \in Users : HandleRecommendCommand(u)
    \/ \E u \in Users : HandleFilesCommand(u)
    \/ \E u \in Users, category \in BrowsedCategories :
           HandleCategoryCommand(u, category)
    \/ \E f \in FileIds : HandleSimilar(f)

SpecStore == InitStore /\ [][NextStore]_vars

(***************************************************************************)
(* SpecRecent: the preference tracker over a catalog with more documents   *)
(* than recently_accessed holds.  Alice has uploaded NumDocs documents     *)
(* (her list is full from the uploads), Carol a photo; Carol has then      *)
(* accessed the documents 1..k in turn, for a k around the limit.          *)
(***************************************************************************)
NumDocs == RecentLimit + 2

ManyUploads ==
    [i \in 1..(NumDocs + 1) |->
        IF i <= NumDocs
        THEN Upload("document", Alice, i, i, NamePdf, Unavailable)
        ELSE Upload("photo", Carol, i, i, MediaName("photo"), Unavailable)]

WarmLengths == (RecentLimit - 2)..RecentLimit

\* user_preferences after user_id accessed the files 1..k in turn
RECURSIVE AccessInTurn(_, _, _, _)
AccessInTurn(up, fm, user_id, k) ==
    IF k = 0 THEN up
    ELSE update_user_preferences(AccessInTurn(up, fm, user_id, k - 1), fm,
                                 user_id, k, "", <<>>, EmptyDict)

InitRecent ==
    \E k \in WarmLengths :
    \E w \in {Replay(EmptyStores, ManyUploads)} :
        /\ stored_files = w.sf
        /\ file_metadata = w.fm
        /\ user_preferences = AccessInTurn(w.up, w.fm, Carol, k)
        /\ clock = w.clock
        /\ ret = NoRet
        /\ nops = 0
        /\ ops_limit = MaxRecentOps
        /\ disk = Flushed(stored_files, file_metadata, user_preferences)
        /\ io_faults = 0
        /\ PollIdle

NextRecent ==
    \/ \E u \in Users, f \in FileIds : RecordAccess(u, f)
    \/ \E u \in Users, a \in InterestArgs : RecordInterest(u, a.category, a.tags)
    \/ \E u \in Users, e \in ExplicitArgs : SetExplicit(u, e)
    \/ \E u \in Users, f \in FirstFileIds :
           UpdateMixed(u, f, "Books", <<"final">>, [k \in {"lang"} |-> "en"])

SpecRecent == InitRecent /\ [][NextRecent]_vars

(***************************************************************************)
(* SpecClassify: the two classifiers as functions.  A behaviour makes one   *)
(* call, on a file name, a type, the key setting and an answer of the      *)
(* capability; ret holds the arguments and the record returned.            *)
(***************************************************************************)
MaxNameLen == 3    \* longest file name built from NameAlphabet
MaxAiTags == 7     \* longest tag list the capability answers with

NameAlphabet == {"p", "P", "d", "f", "y", "c", "."}

\* the sequences over alphabet of length up to n
RECURSIVE SeqsUpTo(_, _)
SeqsUpTo(alphabet, n) ==
    IF n = 0 THEN {<<>>}
    ELSE LET shorter == SeqsUpTo(alphabet, n - 1)
         IN  shorter \cup {Append(s, c) : s \in shorter, c \in alphabet}

\* longer names: an upper-case extension, two dots, a leading dot
LongNames ==
    { NamePlain, NamePy, NamePdf, MediaName("photo"),
      <<"R", "E", "P", "O", "R", "T", ".", "P", "d", "F">>,
      <<"s", "r", "c", ".", "t", "a", "r", ".", "g", "z">>,
      <<".", "b", "a", "s", "h", "r", "c">>,
      <<"b", "o", "o", "k", ".", "e", "p", "u", "b", ".">> }

FileNames == SeqsUpTo(NameAlphabet, MaxNameLen) \cup LongNames

\* the types the handlers store, and two that no branch names
FileTypes == {"photo", "video", "audio", "document", "voice", ""}

DEFAULT_TAGS ==
    <<"work", "personal", "important", "draft", "final",
      "project", "backup", "reference", "tutorial", "template">>

AiCategories ==
    {CategoryAbsent, CategoryNull, CategoryString("Code"), CategoryString("Weird")}

AiTagValues ==
    {JAbsent, JNull, JNumber,
     JChars(<<"w", "o", "r", "k", "i", "n", "g">>), JChars(<<"w", "i", "p">>)}
    \cup {JList(SubSeq(DEFAULT_TAGS, 1, k)) : k \in 0..MaxAiTags}

AiResponses ==
    {AiFailure("error"), AiFailure("text"), AiFailure("array")}
    \cup {AiObject(category, tags) : category \in AiCategories, tags \in AiTagValues}

\* the file_info a classifier call reads: its name and its type
ClassifyInfo(file_name, file_type) ==
    [MediaInfo(0, 0, file_type, 0, file_name) EXCEPT !.id = 0]

CallAnalyzeFileName(file_name, file_type) ==
    /\ ret = NoRet
    /\ ret' = [op |-> "analyze_file_name",
               arg |-> [name |-> file_name, type |-> file_type,
                        api_key |-> FALSE, response |-> Unavailable],
               val |-> analyze_file_name(file_name, file_type, clock)]
    /\ UNCHANGED <<stored_files, file_metadata, user_preferences, clock, nops,
                   ops_limit, disk, io_faults, pollvars>>

CallAnalyzeFileWithAi(file_name, file_type, api_key, response) ==
    /\ ret = NoRet
    /\ ret' = [op |-> "analyze_file_with_ai",
               arg |-> [name |-> file_name, type |-> file_type,
                        api_key |-> api_key, response |-> response],
               val |-> analyze_file_with_ai(ClassifyInfo(file_name, file_type),
                                            api_key, response, clock)]
    /\ UNCHANGED <<stored_files, file_metadata, user_preferences, clock, nops,
                   ops_limit, disk, io_faults, pollvars>>

InitClassify ==
    /\ stored_files = EmptyStores.sf
    /\ file_metadata = EmptyStores.fm
    /\ user_preferences = EmptyStores.up
    /\ clock = EmptyStores.clock
    /\ ret = NoRet
    /\ nops = 0
    /\ ops_limit = 0
    /\ disk = Flushed(stored_files, file_metadata, user_preferences)
    /\ io_faults = 0
    /\ PollIdle

NextClassify ==
    \/ \E name \in FileNames, type \in FileTypes : CallAnalyzeFileName(name, type)
    \/ \E name \in LongNames, type \in FileTypes, api_key \in BOOLEAN,
          response \in AiResponses :
           CallAnalyzeFileWithAi(name, type, api_key, response)

SpecClassify == InitClassify /\ [][NextClassify]_vars

(***************************************************************************)
(* SpecBot: the bot's store and download handlers together.  Documents     *)
(* arrive with names and answers of the capability that exercise the       *)
(* classifier (more tags than the limit, tags given as one string, no      *)
(* answer); photos, videos and audio files arrive; links are followed,     *)
(* also one that names no file.                                            *)
(***************************************************************************)
MaxBotOps == 2     \* handled messages per behaviour of SpecBot

BotNames == {NamePlain, NamePy}

BotResponses ==
    { AiAnswer("Code", SubSeq(DEFAULT_TAGS, 1, MaxAiTags)),
      AiObject(CategoryString("Weird"), JChars(<<"w", "o", "r", "k", "i", "n", "g">>)),
      Unavailable }

BotMediaTypes == {"photo", "video", "audio"}

\* the identifiers links are followed with: the stored ones and one unknown
LinkIds == FileIds \cup {0}

InitBot ==
    \E k \in SeedLengths :
    \E w \in {Replay(EmptyStores, SubSeq(Uploads, 1, k))} :
        /\ stored_files = w.sf
        /\ file_metadata = w.fm
        /\ user_preferences = w.up
        /\ clock = w.clock
        /\ ret = NoRet
        /\ nops = 0
        /\ ops_limit = MaxBotOps
        /\ disk = Flushed(stored_files, file_metadata, user_preferences)
        /\ io_faults = 0
        /\ PollIdle

NextBot ==
    \/ \E u \in Users, name \in BotNames, id \in NewIds, response \in BotResponses :
           HandleDocument(u, name, id, response)
    \/ \E u \in Users, id \in NewIds, type \in BotMediaTypes : HandleMedia(u, id, type)
    \/ \E u \in Users, f \in LinkIds : HandleDownload(u, f)

SpecBot == InitBot /\ [][NextBot]_vars

(***************************************************************************)
(* SpecEligible: the bot over the catalog of SpecRecent, Carol having      *)
(* accessed the documents 1..k in turn.  Carol follows links and shows     *)
(* interest in a category; Carol and Alice upload documents.               *)
(***************************************************************************)
MaxEligibleOps == 2   \* handled messages per behaviour of SpecEligible

InitEligible ==
    \E k \in WarmLengths :
    \E w \in {Replay(EmptyStores, ManyUploads)} :
        /\ stored_files = w.sf
        /\ file_metadata = w.fm
        /\ user_preferences = AccessInTurn(w.up, w.fm, Carol, k)
        /\ clock = w.clock
        /\ ret = NoRet
        /\ nops = 0
        /\ ops_limit = MaxEligibleOps
        /\ disk = Flushed(stored_files, file_metadata, user_preferences)
        /\ io_faults = 0
        /\ PollIdle

NextEligible ==
    \/ \E f \in FileIds : HandleDownload(Carol, f)
    \/ \E u \in Users, id \in NewIds : HandleDocument(u, NamePdf, id, Unavailable)
    \/ RecordInterest(Carol, "Code", <<"work", "new">>)

SpecEligible == InitEligible /\ [][NextEligible]_vars

(***************************************************************************)
(* SpecPersist: the bot from the start of its process.  The stores are     *)
(* empty, the files under data/ are as an earlier run (the first uploads   *)
(* of Uploads) or a mishap left them; main loads them, then messages are   *)
(* handled and data is saved, and a save may fail.                         *)
(***************************************************************************)
MaxPersistOps == 2   \* handled messages and periodic saves per behaviour
MaxFaults == 1       \* saves that fail per behaviour

\* what a file can hold when the process starts, stored being the text an
\* earlier run saved
FilesAtStart(stored) ==
    {json_dump(stored), FileMissing, FileUnreadable, FileMalformed}

\* load_data() at the start of main
LoadData ==
    /\ pc = "load"
    /\ LET w == load_data(Stores, disk)
       IN  /\ stored_files' = w.sf
           /\ file_metadata' = w.fm
           /\ user_preferences' = w.up
    /\ pc' = "poll"
    /\ UNCHANGED <<clock, ret, nops, ops_limit, disk, io_faults, offset, batch,
                   inflight, log>>

\* save_all_data() of main, after a batch without updates
SaveAllData ==
    /\ nops < ops_limit
    /\ nops' = nops + 1
    /\ ret' = NoRet
    /\ UNCHANGED <<stored_files, file_metadata, user_preferences, clock,
                   ops_limit, pollvars>>
    /\ Save(Paths)

InitPersist ==
    \E w \in {Replay(EmptyStores, SubSeq(Uploads, 1, 4))} :
    \E metadata_file \in FilesAtStart(w.fm),
       preferences_file \in FilesAtStart(w.up) :
        /\ stored_files = EmptyStores.sf
        /\ file_metadata = EmptyStores.fm
        /\ user_preferences = EmptyStores.up
        /\ clock = w.clock
        /\ ret = NoRet
        /\ nops = 0
        /\ ops_limit = MaxPersistOps
        /\ disk = [path \in Paths |->
                      IF path = FILES_DATA THEN json_dump(w.sf)
                      ELSE IF path = FILE_METADATA THEN metadata_file
                      ELSE preferences_file]
        /\ io_faults = MaxFaults
        /\ pc = "load"
        /\ offset = 0
        /\ batch = <<>>
        /\ inflight = <<>>
        /\ log = <<>>

NextPersist ==
    \/ LoadData
    \/ pc = "poll" /\ \E id \in NewIds : HandleDocument(Carol, NamePy, id, Unavailable)
    \/ pc = "poll" /\ \E f \in FirstFileIds \cup {0} : HandleDownload(Carol, f)
    \/ pc = "poll" /\ \E f \in FirstFileIds : TrackFileAccess(f)
    \/ pc = "poll" /\ RecordInterest(Alice, "Code", <<"work", "new">>)
    \/ pc = "poll" /\ SaveAllData

SpecPersist == InitPersist /\ [][NextPersist]_vars

(***************************************************************************)
(* SpecPoll: the loop of simple_bot.main over the updates of the server.   *)
(* The updates are links followed (/start dl_<id>); handle_update runs     *)
(* handle_download in steps: the download is counted, track_file_access    *)
(* reads and then writes the record, update_user_preferences reads and     *)
(* then writes the user's record, the file is sent.  A call may raise      *)
(* before it changed anything or when the file is sent.                    *)
(***************************************************************************)
MaxUpdates == 3    \* updates the server receives
MaxRaises == 1     \* calls of handle_update that raise per behaviour

\* the update with update_id i: Alice follows the link of the document 3,
\* every third time Carol the link of the photo 1
Update(i) ==
    [update_id |-> i,
     user_id |-> IF i % 3 = 0 THEN Carol ELSE Alice,
     link |-> IF i % 3 = 0 THEN 1 ELSE 3]

Event(ev, update_id, at) == [ev |-> ev, id |-> update_id, at |-> at]

Raises == Cardinality({k \in DOMAIN log : log[k].ev = "raise"})

\* the largest update_id the bot has seen
Arrived ==
    IF log = <<>> THEN 0
    ELSE CHOOSE n \in {log[k].id : k \in DOMAIN log} :
             \A k \in DOMAIN log : log[k].id <= n

\* get_updates(offset)["result"] when the server holds the updates up to
\* last: those from offset on, all of them for offset None
get_updates(offset_arg, last) ==
    LET first == IF offset_arg = 0 THEN 1 ELSE offset_arg
    IN  [j \in 1..(last - first + 1) |-> first + j - 1]

\* main: updates = get_updates(offset).  A result without updates is
\* iterated over in no step and changes nothing.
GetUpdates ==
    /\ pc = "poll"
    /\ \E last \in Max(Arrived, 1)..MaxUpdates :
           /\ get_updates(offset, last) # <<>>
           /\ batch' = get_updates(offset, last)
    /\ pc' = "loop"
    /\ UNCHANGED <<stored_files, file_metadata, user_preferences, clock, ret,
                   nops, ops_limit, disk, io_faults, offset, inflight, log>>

\* a dispatcher that starts a call per update without waiting for the last
CanDispatch_Concurrent == TRUE

\* handle_update(update) is an ordinary call: the loop waits for its return
CanDispatch == inflight = <<>>

\* an offset that stays on the update handled
NextOffset_Same(update_id) == update_id

\* offset = update["update_id"] + 1
NextOffset(update_id) == update_id + 1

\* main: for update in updates["result"]: handle_update(update)
StartHandle ==
    /\ pc = "loop"
    /\ batch # <<>>
    /\ CanDispatch
    /\ inflight' = Append(inflight,
                          [update |-> Update(Head(batch)), at |-> "start",
                           before |-> Stores, count |-> 0, prefs |-> NewUserPrefs])
    /\ batch' = Tail(batch)
    /\ log' = Append(log, Event("start", Head(batch), "start"))
    /\ UNCHANGED <<stored_files, file_metadata, user_preferences, clock, ret,
                   nops, ops_limit, disk, io_faults, pc, offset>>

Without(s, i) == SubSeq(s, 1, i - 1) \o SubSeq(s, i + 1, Len(s))

\* the key of the metadata record of the file a call is about
HandledId(h) == RefMetaId(stored_files, h.update.link)

\* handle_download, lines 314-326: the entry counts the download
HandlerBegin(i) ==
    /\ inflight[i].at = "start"
    /\ LET k == CHOOSE k \in 1..Len(stored_files) :
                    stored_files[k].id = inflight[i].update.link
       IN  stored_files' = [stored_files EXCEPT ![k].downloads = @ + 1,
                                                ![k].last_accessed = clock]
    /\ inflight' = [inflight EXCEPT ![i].at = "track"]
    /\ UNCHANGED <<file_metadata, user_preferences, clock, ret, nops, ops_limit,
                   pc, offset, batch, log>>
    /\ UNCHANGED <<disk, io_faults>>

\* track_file_access, lines 244-245 and the right side of 247: the record is
\* looked up and its access_count read
TrackRead(i) ==
    /\ inflight[i].at = "track"
    /\ inflight' =
           IF HandledId(inflight[i]) \in DOMAIN file_metadata
           THEN [inflight EXCEPT
                    ![i].at = "track_write",
                    ![i].count = file_metadata[HandledId(inflight[i])].access_count]
           ELSE [inflight EXCEPT ![i].at = "prefs"]
    /\ UNCHANGED <<stored_files, file_metadata, user_preferences, clock, ret,
                   nops, ops_limit, disk, io_faults, pc, offset, batch, log>>

\* track_file_access, lines 246-249: the count read is written back one
\* higher, and the store is saved
TrackWrite(i) ==
    /\ inflight[i].at = "track_write"
    /\ LET unique_id == HandledId(inflight[i])
       IN  file_metadata' =
               track_file_access(
                   [file_metadata EXCEPT ![unique_id].access_count = inflight[i].count],
                   unique_id, clock)
    /\ inflight' = [inflight EXCEPT ![i].at = "prefs"]
    /\ UNCHANGED <<stored_files, user_preferences, clock, ret, nops, ops_limit,
                   pc, offset, batch, log>>
    /\ Save({FILE_METADATA})

\* update_user_preferences, lines 258-266: the user's record is created if
\* there is none, and read
PrefsRead(i) ==
    /\ inflight[i].at = "prefs"
    /\ LET key == Str(inflight[i].update.user_id)
       IN  /\ user_preferences' =
                  IF key \in DOMAIN user_preferences THEN user_preferences
                  ELSE DictSet(user_preferences, key, NewUserPrefs)
           /\ inflight' = [inflight EXCEPT
                              ![i].at = "prefs_write",
                              ![i].prefs = user_preferences'[key]]
    /\ UNCHANGED <<stored_files, file_metadata, clock, ret, nops, ops_limit,
                   disk, io_faults, pc, offset, batch, log>>

\* update_user_preferences, lines 268-300: the list and the weights read
\* are written back updated, and the store is saved
PrefsWrite(i) ==
    /\ inflight[i].at = "prefs_write"
    /\ LET key == Str(inflight[i].update.user_id)
       IN  user_preferences' =
               update_user_preferences(
                   DictSet(user_preferences, key, inflight[i].prefs),
                   file_metadata, inflight[i].update.user_id,
                   HandledId(inflight[i]), "", <<>>, EmptyDict)
    /\ inflight' = [inflight EXCEPT ![i].at = "send"]
    /\ UNCHANGED <<stored_files, file_metadata, clock, ret, nops, ops_limit,
                   pc, offset, batch, log>>
    /\ Save({USER_PREFERENCES})

\* handle_download, lines 337-392, returns, and main moves the offset; after
\* the last update of the result main calls save_all_data and polls again
HandlerReturn(i) ==
    /\ inflight[i].at = "send"
    /\ inflight' = Without(inflight, i)
    /\ offset' = NextOffset(inflight[i].update.update_id)
    /\ log' = Append(log, Event("return", inflight[i].update.update_id, "send"))
    /\ pc' = IF batch = <<>> THEN "poll" ELSE "loop"
    /\ clock' = clock + 1
    /\ ret' = [op |-> "similar",
               arg |-> HandledId(inflight[i]),
               val |-> get_similar_files(HandledId(inflight[i]), stored_files,
                                         SimilarCount)]
    /\ UNCHANGED <<stored_files, file_metadata, user_preferences, nops,
                   ops_limit, batch>>
    /\ Save(IF batch = <<>> THEN Paths ELSE {FILES_DATA})

\* handle_update raises: in handle_download before line 314 (the message
\* lacks a field, the reply to a banned user cannot be sent), or at line 389
\* when neither the file nor the apology can be sent.  main logs it, sleeps
\* and polls again.
HandlerRaise(i) ==
    /\ inflight[i].at \in {"start", "send"}
    /\ Raises < MaxRaises
    /\ inflight' = Without(inflight, i)
    /\ log' = Append(log, Event("raise", inflight[i].update.update_id,
                                inflight[i].at))
    /\ batch' = <<>>
    /\ pc' = "poll"
    /\ clock' = IF inflight[i].at = "send" THEN clock + 1 ELSE clock
    /\ ret' = NoRet
    /\ UNCHANGED <<stored_files, file_metadata, user_preferences, nops,
                   ops_limit, offset>>
    /\ Save(IF inflight[i].at = "send" THEN {FILES_DATA} ELSE {})

InitPoll ==
    \E w \in {Replay(EmptyStores, SubSeq(Uploads, 1, 4))} :
        /\ stored_files = w.sf
        /\ file_metadata = w.fm
        /\ user_preferences = w.up
        /\ clock = w.clock
        /\ ret = NoRet
        /\ nops = 0
        /\ ops_limit = 0
        /\ disk = Flushed(stored_files, file_metadata, user_preferences)
        /\ io_faults = 0
        /\ PollIdle

NextPoll ==
    \/ GetUpdates
    \/ StartHandle
    \/ \E i \in DOMAIN inflight : HandlerBegin(i)
    \/ \E i \in DOMAIN inflight : TrackRead(i)
    \/ \E i \in DOMAIN inflight : TrackWrite(i)
    \/ \E i \in DOMAIN inflight : PrefsRead(i)
    \/ \E i \in DOMAIN inflight : PrefsWrite(i)
    \/ \E i \in DOMAIN inflight : HandlerReturn(i)
    \/ \E i \in DOMAIN inflight : HandlerRaise(i)

SpecPoll == InitPoll /\ [][NextPoll]_vars
(***************************************************************************)
(* What the claims about the ranking functions quantify over.  A ranking   *)
(* is a function of the stores and its arguments, and the reading handlers *)
(* leave the stores alone, so every value of the stores occurs in a state  *)
(* with ret = NoRet (at the start, or right after a mutating call).  Each  *)
(* claim is checked on the result a handler actually got (ret) and, in the *)
(* states with ret = NoRet, on every call with a user of Users, a catalog  *)
(* of Catalogs (the whole catalog, as handle_recommend_command and         *)
(* handle_download pass it, and each user's own files, as                  *)
(* handle_files_command passes them) and a count up to MaxCount.           *)
(***************************************************************************)
Counts == 0..MaxCount

Catalogs == {stored_files} \cup {UserFiles(stored_files, u) : u \in Users}

RefFileIds == FileIds \cup {0}

NoDuplicates(s) == \A i, j \in 1..Len(s) : i # j => s[i] # s[j]

\* position of x in a list without duplicates
PosIn(s, x) == CHOOSE i \in 1..Len(s) : s[i] = x

\* r is the first `count` of the candidates cands (file ids in catalog
\* order) ranked by Score descending, candidates of equal score in catalog
\* order
IsTopRanking(r, cands, Score(_), count) ==
    LET Before(x, y) ==
            \/ Score(x) > Score(y)
            \/ Score(x) = Score(y) /\ PosIn(cands, x) < PosIn(cands, y)
    IN  /\ Len(r) = Min(count, Len(cands))
        /\ Range(r) \subseteq Range(cands)
        /\ \A i, j \in 1..Len(r) : i < j => Before(r[i], r[j])
        /\ \A x \in Range(r), y \in Range(cands) \ Range(r) : Before(x, y)

RecentOf(user_id) == user_preferences[Str(user_id)].recently_accessed

HasPrefs(user_id) == Str(user_id) \in DOMAIN user_preferences

\* P holds of what /recommend got and of every get_recommendations call
ForRecommendCalls(P(_, _, _, _)) ==
    /\ ret.op = "recommend" => P(ret.arg, stored_files, RecommendCount, ret.val)
    /\ ret = NoRet =>
           \A u \in Users, sf \in Catalogs, count \in Counts :
               P(u, sf, count, get_recommendations(u, sf, count))

\* P holds of what a download got and of every get_similar_files call
ForSimilarCalls(P(_, _, _, _)) ==
    /\ ret.op = "similar" => P(ret.arg, stored_files, SimilarCount, ret.val)
    /\ ret = NoRet =>
           \A f \in RefFileIds, sf \in Catalogs, n \in Counts :
               P(f, sf, n, get_similar_files(f, sf, n))

\* P holds of what /files got and of every organize_files_by_category call
ForOrganizeCalls(P(_, _)) ==
    /\ ret.op = "files" => P(UserFiles(stored_files, ret.arg), ret.val)
    /\ ret = NoRet =>
           \A sf \in Catalogs : P(sf, organize_files_by_category(sf))

(***************************************************************************)
(* C1: in every reachable state, for every user with a preference record,  *)
(* every catalog and every count, get_recommendations returns no file      *)
(* identifier that is in the user's recently_accessed.                     *)
(***************************************************************************)
C1_Holds(u, sf, count, r) ==
    HasPrefs(u) => Range(r) \cap Range(RecentOf(u)) = {}

C1_RecommendExcludesRecent == ForRecommendCalls(C1_Holds)

\* Carol has accessed two documents and /recommend gave her the other files
C1_Witness ==
    /\ ret.op = "recommend" /\ ret.arg = Carol /\ HasPrefs(Carol)
    /\ nops > 0
    /\ Len(RecentOf(Carol)) = 2
    /\ Range(RecentOf(Carol)) \subseteq Range(Keys(stored_files))
    /\ Len(ret.val) = Len(stored_files) - 2

(***************************************************************************)
(* C2: for a user with no preference record get_recommendations returns    *)
(* exactly the first min(count, |catalog|) catalog identifiers in catalog  *)
(* order, whatever the files' metadata.                                    *)
(***************************************************************************)
C2_Holds(u, sf, count, r) ==
    ~HasPrefs(u) =>
        /\ Len(r) = Min(count, Len(sf))
        /\ \A i \in 1..Len(r) : r[i] = sf[i].id

RECURSIVE C3_TagSum(_, _)
C3_TagSum(tags, fav_tags) ==
    IF tags = <<>> THEN 0
    ELSE (IF Head(tags) \in DOMAIN fav_tags THEN fav_tags[Head(tags)] ELSE 0)
         + C3_TagSum(Tail(tags), fav_tags)

C3_Score(u, file_id) ==
    LET prefs == user_preferences[Str(u)]
    IN  IF file_id \in DOMAIN file_metadata
        THEN (IF file_metadata[file_id].category \in DOMAIN prefs.favorite_categories
              THEN prefs.favorite_categories[file_metadata[file_id].category]
              ELSE 0)
             + C3_TagSum(file_metadata[file_id].tags, prefs.favorite_tags)
        ELSE 0

C3_Eligible(u, sf) ==
    LET Keep(file_id) == \A i \in 1..Len(RecentOf(u)) : RecentOf(u)[i] # file_id
    IN  SelectSeq(Keys(sf), Keep)

C3_Holds(u, sf, count, r) ==
    HasPrefs(u) =>
        LET Score(file_id) == C3_Score(u, file_id)
        IN  /\ IsTopRanking(r, C3_Eligible(u, sf), Score, count)
            /\ \A i, j \in 1..Len(r) :
                   (Score(r[i]) = 0 /\ Score(r[j]) > 0) => j < i

C3_RecommendRanking == ForRecommendCalls(C3_Holds)

\* Carol has accessed document 3 (Code; work, draft) only: /recommend ranks
\* 5 (Code; draft, work, final) over 2 (Code) over 4 (Weird; work), then the
\* zero-score files 1 (no record) and 6 (Books; final) in catalog order
C3_Witness ==
    /\ ret.op = "recommend" /\ ret.arg = Carol /\ HasPrefs(Carol)
    /\ RecentOf(Carol) = <<3>>
    /\ ret.val = <<5, 2, 4, 1, 6>>
    /\ C3_Score(Carol, 5) > C3_Score(Carol, 2)
    /\ C3_Score(Carol, 4) > 0
    /\ C3_Score(Carol, 1) = 0 /\ C3_Score(Carol, 6) = 0

(***************************************************************************)
(* C4: for every reference file f, catalog and n >= 0,                     *)
(* get_similar_files(f, catalog, n) never contains f, contains no          *)
(* identifier twice and has at most n entries; and a file sharing the      *)
(* reference's category and all of its tags scores strictly more than a    *)
(* file sharing neither.                                                   *)
(***************************************************************************)
C4_Holds(f, sf, n, r) ==
    /\ f \notin Range(r)
    /\ NoDuplicates(r)
    /\ Len(r) <= n

C4_SimilarExcludesSelf ==
    /\ ForSimilarCalls(C4_Holds)
    /\ \A f, a, b \in DOMAIN file_metadata :
           LET ref == file_metadata[f]
               ma == file_metadata[a]
               mb == file_metadata[b]
           IN  ( /\ ma.category = ref.category
                 /\ Range(ref.tags) \subseteq Range(ma.tags)
                 /\ mb.category # ref.category
                 /\ Range(ref.tags) \cap Range(mb.tags) = {} )
               => SimilarityScore(ma, ref) > SimilarityScore(mb, ref)

\* a download of document 3 (Code; work, draft) showed its two most similar
\* files, not 3 itself; 5 shares category and both tags, 6 shares neither
C4_Witness ==
    /\ ret.op = "similar" /\ ret.arg = 3
    /\ ret.val = <<5, 2>>
    /\ Len(ret.val) = SimilarCount
    /\ {5, 6} \subseteq DOMAIN file_metadata
    /\ file_metadata[5].category = file_metadata[3].category
    /\ Range(file_metadata[3].tags) \subseteq Range(file_metadata[5].tags)
    /\ file_metadata[6].category # file_metadata[3].category
    /\ Range(file_metadata[3].tags) \cap Range(file_metadata[6].tags) = {}

(***************************************************************************)
(* C5: get_similar_files scores every other catalog entry that has a       *)
(* metadata record 5 for the reference's category plus 2 per tag shared    *)
(* with the reference, and returns the first `count` of them by score      *)
(* descending, equal scores in catalog order; Images {vacation, beach}     *)
(* against Images {vacation, friends} scores 7.                            *)
(***************************************************************************)
C5_Score(file_id, ref_id) ==
    (IF file_metadata[file_id].category = file_metadata[ref_id].category
     THEN 5 ELSE 0)
    + 2 * Cardinality({t \in Range(file_metadata[file_id].tags) :
                           t \in Range(file_metadata[ref_id].tags)})

C5_Candidates(sf, ref_id) ==
    LET Keep(file_id) == file_id # ref_id /\ file_id \in DOMAIN file_metadata
    IN  SelectSeq(Keys(sf), Keep)

C5_Holds(f, sf, n, r) ==
    f \in DOMAIN file_metadata =>
        LET Score(file_id) == C5_Score(file_id, f)
        IN  IsTopRanking(r, C5_Candidates(sf, f), Score, n)

C5_SimilarRanking ==
    /\ ForSimilarCalls(C5_Holds)
    /\ SimilarityScore(NewMetadata("Images", <<>>, <<"vacation", "friends">>, TRUE, 0),
                       NewMetadata("Images", <<>>, <<"vacation", "beach">>, TRUE, 0)) = 7

\* a download of document 2 (Code, no tags): 3 and 5 share the category and
\* tie at 5, 4 scores 0; the two shown are 3 then 5, the catalog order
C5_Witness ==
    /\ ret.op = "similar" /\ ret.arg = 2
    /\ ret.val = <<3, 5>>
    /\ C5_Score(3, 2) = 5 /\ C5_Score(5, 2) = 5
    /\ C5_Score(5, 3) = 9
    /\ get_similar_files(2, stored_files, 3) = <<3, 5, 4>>

(***************************************************************************)
(* C6: get_similar_files returns the empty sequence when the reference     *)
(* file has no metadata record, and its result never contains a catalog    *)
(* entry that has no metadata record.                                      *)
(***************************************************************************)
C6_Holds(f, sf, n, r) ==
    /\ f \notin DOMAIN file_metadata => r = <<>>
    /\ Range(r) \subseteq DOMAIN file_metadata

C6_SimilarNeedsMetadata == ForSimilarCalls(C6_Holds)

\* a download of photo 1 (no record) showed no similar file, and the files
\* similar to document 3 are all the other documents but not the photo
C6_Witness ==
    /\ ret.op = "similar" /\ ret.arg = 1 /\ ret.val = <<>>
    /\ nops > 0
    /\ 1 \in Range(Keys(stored_files)) /\ 1 \notin DOMAIN file_metadata
    /\ Len(get_similar_files(3, stored_files, Len(stored_files)))
           = Len(stored_files) - 2
    /\ 1 \notin Range(get_similar_files(3, stored_files, Len(stored_files)))

(***************************************************************************)
(* C7: for every catalog, organize_files_by_category returns no category   *)
(* with an empty list, and every catalog identifier is in exactly one list *)
(* exactly once (the lists together are the catalog's key set), also for   *)
(* an unrecognized category and for a file with no record.                 *)
(***************************************************************************)
C7_Holds(sf, o) ==
    LET Places(file_id) ==
            {<<cat, i>> \in (DOMAIN o) \X (1..Len(sf)) :
                 i <= Len(o[cat]) /\ o[cat][i] = file_id}
    IN  /\ \A cat \in DOMAIN o : o[cat] # <<>>
        /\ \A file_id \in Range(Keys(sf)) : Cardinality(Places(file_id)) = 1
        /\ \A cat \in DOMAIN o : Range(o[cat]) \subseteq Range(Keys(sf))

C7_OrganizePartitions == ForOrganizeCalls(C7_Holds)

\* /files of Alice: all her documents are listed, document 4 (category Weird)
\* under Other
C7_Witness ==
    /\ ret.op = "files" /\ ret.arg = Alice
    /\ nops > 0
    /\ DOMAIN ret.val = {"Code", "Other"}
    /\ 4 \in Range(ret.val["Other"])
    /\ file_metadata[4].category \notin Range(DEFAULT_CATEGORIES)
    /\ Len(ret.val["Code"]) + Len(ret.val["Other"])
           = Len(UserFiles(stored_files, Alice))
    /\ Len(UserFiles(stored_files, Alice)) > 3

(***************************************************************************)
(* C8: organize_files_by_category has only the ten fixed categories as     *)
(* keys; a file is under its record's category when that is a fixed one,   *)
(* under Other when it has no record or an unrecognized category; within a *)
(* category the identifiers are in catalog order.                          *)
(***************************************************************************)
FixedCategories ==
    {"Documents", "Images", "Videos", "Audio", "Archives", "Presentations",
     "Spreadsheets", "Code", "Books", "Other"}

C8_Expected(file_id) ==
    IF file_id \in DOMAIN file_metadata
       /\ file_metadata[file_id].category \in FixedCategories
    THEN file_metadata[file_id].category
    ELSE "Other"

C8_Holds(sf, o) ==
    /\ DOMAIN o \subseteq FixedCategories
    /\ \A file_id \in Range(Keys(sf)) :
           /\ C8_Expected(file_id) \in DOMAIN o
           /\ file_id \in Range(o[C8_Expected(file_id)])
    /\ \A cat \in DOMAIN o : \A i, j \in 1..Len(o[cat]) :
           i < j => PosIn(Keys(sf), o[cat][i]) < PosIn(Keys(sf), o[cat][j])

C8_OrganizeByFixedCategory == ForOrganizeCalls(C8_Holds)

\* /files of Carol: the photo, which has no record, is under Other; in the
\* whole catalog Other holds it and document 4, and Alice's Code documents
\* are listed 3, 2, 5 as in the catalog
C8_Witness ==
    /\ ret.op = "files" /\ ret.arg = Carol
    /\ ret.val = [cat \in {"Other"} |-> <<1>>]
    /\ 1 \notin DOMAIN file_metadata
    /\ nops > 0
    /\ "Code" \in DOMAIN organize_files_by_category(UserFiles(stored_files, Alice))
    /\ organize_files_by_category(UserFiles(stored_files, Alice))["Code"]
           = <<3, 2, 5>>
    /\ organize_files_by_category(stored_files)["Other"] = <<1, 4>>

(***************************************************************************)
(* C9: from empty stores, after any sequence of update_user_preferences    *)
(* calls (file access, interest, explicit preference, in any mix, for any  *)
(* users), every user's recently_accessed has at most 10 entries and no    *)
(* identifier twice.                                                       *)
(***************************************************************************)
C9_RecentBounded ==
    \A key \in DOMAIN user_preferences :
        /\ Len(user_preferences[key].recently_accessed) <= 10
        /\ NoDuplicates(user_preferences[key].recently_accessed)

\* Carol, her list full with 10..1, accessed 11 (1 dropped out) and then 1
\* again
C9_Witness ==
    /\ nops = 2
    /\ HasPrefs(Carol)
    /\ RecentOf(Carol) = <<1, 11, 10, 9, 8, 7, 6, 5, 4, 3>>

(***************************************************************************)
(* C10: a record_access of a file with a metadata record puts the file at  *)
(* position 0 of the user's recently_accessed, keeps the relative order of *)
(* the other entries, does not grow the list when the file was in it, and  *)
(* drops only the oldest (last) entry when the list would exceed 10.       *)
(***************************************************************************)
C10_Before(user_id) == IF HasPrefs(user_id) THEN RecentOf(user_id) ELSE <<>>

C10_Post(old, new, file_id) ==
    LET NotIt(x) == x # file_id
        others == SelectSeq(old, NotIt)
    IN  /\ new # <<>>
        /\ new[1] = file_id
        /\ Len(Tail(new)) <= Len(others)
        /\ Tail(new) = SubSeq(others, 1, Len(Tail(new)))
        /\ InSeq(file_id, old) => Len(new) = Len(old) /\ Tail(new) = others
        /\ (~InSeq(file_id, old) /\ Len(old) < 10) => Tail(new) = old
        /\ (~InSeq(file_id, old) /\ Len(old) = 10) =>
               Tail(new) = SubSeq(old, 1, Len(old) - 1)

C10_RecordAccessMovesToFront ==
    [][ \A u \in Users, f \in DOMAIN file_metadata :
            RecordAccess(u, f) =>
                C10_Post(C10_Before(u), RecentOf(u)', f) ]_vars

\* Carol, her list full with 10..1, accessed 11: it is first, 1 dropped out
C10_Witness ==
    /\ nops = 1
    /\ HasPrefs(Carol)
    /\ RecentOf(Carol) = <<11, 10, 9, 8, 7, 6, 5, 4, 3, 2>>

(***************************************************************************)
(* What the claims about update_user_preferences compare: a user's record  *)
(* before a call (the record a new user gets, when there is none) and      *)
(* after it.                                                               *)
(***************************************************************************)
PrefsBefore(user_id) ==
    IF HasPrefs(user_id) THEN user_preferences[Str(user_id)] ELSE NewUserPrefs

PrefsAfter(user_id) == user_preferences'[Str(user_id)]

\* weights new are weights old with Added(key) more under every key
WeightsGrowBy(old, new, Added(_)) ==
    /\ DOMAIN old \subseteq DOMAIN new
    /\ \A k \in DOMAIN new : new[k] = DictGet(old, k, 0) + Added(k)
    /\ \A k \in DOMAIN new \ DOMAIN old : Added(k) > 0

OthersUnchanged(user_id) ==
    \A key \in DOMAIN user_preferences \ {Str(user_id)} :
        /\ key \in DOMAIN user_preferences'
        /\ user_preferences'[key] = user_preferences[key]

(***************************************************************************)
(* C11: every update_user_preferences(user_id, file_id) call for a file    *)
(* with a metadata record adds exactly 1 to the weight of the file's       *)
(* category and exactly 1 to the weight of each of the file's tags, and    *)
(* changes no other weight of the user.                                    *)
(***************************************************************************)
C11_Post(user_id, file_id) ==
    LET metadata == file_metadata[file_id]
        CategoryAdded(c) == IF c = metadata.category THEN 1 ELSE 0
        TagAdded(t) == IF t \in Range(metadata.tags) THEN 1 ELSE 0
    IN  /\ WeightsGrowBy(PrefsBefore(user_id).favorite_categories,
                         PrefsAfter(user_id).favorite_categories, CategoryAdded)
        /\ WeightsGrowBy(PrefsBefore(user_id).favorite_tags,
                         PrefsAfter(user_id).favorite_tags, TagAdded)

C11_AccessAddsOne ==
    [][ \A u \in Users, f \in DOMAIN file_metadata :
            RecordAccess(u, f) => C11_Post(u, f) ]_vars

(***************************************************************************)
(* C12: every update_user_preferences(user_id, file_id) call for a file    *)
(* without a metadata record leaves the whole preference store as it was:  *)
(* no record is created, no list and no weight changes.                    *)
(***************************************************************************)
C12_AccessWithoutMetadataIsNoOp ==
    [][ \A u \in Users, f \in FileIds \ DOMAIN file_metadata :
            RecordAccess(u, f) => user_preferences' = user_preferences ]_vars

(***************************************************************************)
(* C13: every update_user_preferences(user_id, category=, tags=) call adds *)
(* exactly 3 to the weight of the named category and of each named tag,    *)
(* absent entries starting from 0, and leaves the user's recently_accessed *)
(* and explicit preferences, every other weight and the other users'       *)
(* records unchanged.                                                      *)
(***************************************************************************)
C13_Post(user_id, category, tags) ==
    LET CategoryAdded(c) == IF c = category THEN 3 ELSE 0
        TagAdded(t) == IF t \in Range(tags) THEN 3 ELSE 0
    IN  /\ WeightsGrowBy(PrefsBefore(user_id).favorite_categories,
                         PrefsAfter(user_id).favorite_categories, CategoryAdded)
        /\ WeightsGrowBy(PrefsBefore(user_id).favorite_tags,
                         PrefsAfter(user_id).favorite_tags, TagAdded)
        /\ category # "" => category \in DOMAIN PrefsAfter(user_id).favorite_categories
        /\ Range(tags) \subseteq DOMAIN PrefsAfter(user_id).favorite_tags
        /\ PrefsAfter(user_id).recently_accessed
               = PrefsBefore(user_id).recently_accessed
        /\ PrefsAfter(user_id).explicit_preferences
               = PrefsBefore(user_id).explicit_preferences
        /\ OthersUnchanged(user_id)

C13_InterestAddsThree ==
    [][ \A u \in Users, a \in InterestArgs :
            RecordInterest(u, a.category, a.tags) =>
                C13_Post(u, a.category, a.tags) ]_vars

\* Carol, who had no record, showed interest in Code with the tags work and
\* new: the three entries were created at 3
C13_Witness ==
    /\ nops = 1
    /\ HasPrefs(Carol)
    /\ user_preferences[Str(Carol)].favorite_categories = [c \in {"Code"} |-> 3]
    /\ user_preferences[Str(Carol)].favorite_tags = [t \in {"work", "new"} |-> 3]
    /\ RecentOf(Carol) = <<>>

(***************************************************************************)
(* C14: every update_user_preferences(user_id, explicit_preference=) call  *)
(* merges the mapping key by key into the user's explicit_preferences: a   *)
(* key of the mapping gets the mapping's value, a stored key that the      *)
(* mapping lacks keeps its value, and the user's weights and               *)
(* recently_accessed are unchanged.                                        *)
(***************************************************************************)
C14_Post(user_id, mapping) ==
    LET old == PrefsBefore(user_id)
        new == PrefsAfter(user_id)
    IN  /\ DOMAIN new.explicit_preferences
               = DOMAIN old.explicit_preferences \cup DOMAIN mapping
        /\ \A k \in DOMAIN mapping : new.explicit_preferences[k] = mapping[k]
        /\ \A k \in DOMAIN old.explicit_preferences \ DOMAIN mapping :
               new.explicit_preferences[k] = old.explicit_preferences[k]
        /\ new.favorite_categories = old.favorite_categories
        /\ new.favorite_tags = old.favorite_tags
        /\ new.recently_accessed = old.recently_accessed

C14_SetExplicitMerges ==
    [][ \A u \in Users, e \in ExplicitArgs :
            SetExplicit(u, e) => C14_Post(u, e) ]_vars

\* Alice set lang and theme, then lang alone: theme kept its value
C14_Witness ==
    /\ nops = 2
    /\ HasPrefs(Alice)
    /\ user_preferences[Str(Alice)].explicit_preferences
           = [k \in {"lang", "theme"} |-> IF k = "lang" THEN "en" ELSE "dark"]

(***************************************************************************)
(* C15: every download of a file adds exactly 1 to the access_count of the *)
(* file's metadata record and leaves every other record's count alone (so  *)
(* N downloads add N), and no step of any handler makes the access_count   *)
(* of a record smaller or removes the record.                              *)
(***************************************************************************)
C15_DownloadCounts(file_id) ==
    \A id \in DOMAIN file_metadata :
        /\ id \in DOMAIN file_metadata'
        /\ file_metadata'[id].access_count =
               file_metadata[id].access_count
               + (IF file_id \in FileIds /\ id = RefMetaId(stored_files, file_id)
                  THEN 1 ELSE 0)

C15_NeverDecreases ==
    \A id \in DOMAIN file_metadata :
        /\ id \in DOMAIN file_metadata'
        /\ file_metadata'[id].access_count >= file_metadata[id].access_count

C15_AccessCountExact ==
    [][ /\ \A u \in Users, f \in LinkIds :
               HandleDownload(u, f) => C15_DownloadCounts(f)
        /\ C15_NeverDecreases ]_vars

(***************************************************************************)
(* C16: for every file name and type, analyze_file_name returns a record   *)
(* whose extension is the lower-cased text after the last "." of the name  *)
(* (empty when the name has no "."), whose category is Images, Videos or   *)
(* Audio for the types photo, video and audio whatever the extension, the  *)
(* category of the extension's group for the type document, and Other in   *)
(* every other case, whose tags are empty and whose AI flag is false;      *)
(* report.pdf of type document gives Documents / pdf.                      *)
(***************************************************************************)
\* ext is what follows the last "." of name, lower-cased
C16_IsExtension(ext, name) ==
    IF \A i \in 1..Len(name) : name[i] # "."
    THEN ext = <<>>
    ELSE \E i \in 1..Len(name) :
             /\ name[i] = "."
             /\ \A j \in (i + 1)..Len(name) : name[j] # "."
             /\ Len(ext) = Len(name) - i
             /\ \A k \in 1..Len(ext) :
                    \/ ext[k] = name[i + k] /\ ~InSeq(name[i + k], UpperCase)
                    \/ \E n \in 1..Len(UpperCase) :
                           name[i + k] = UpperCase[n] /\ ext[k] = LowerCase[n]

C16_GroupCategory(ext) ==
    IF \E n \in 1..Len(ExtensionTable) : ext \in ExtensionTable[n].exts
    THEN ExtensionTable[CHOOSE n \in 1..Len(ExtensionTable) :
                            ext \in ExtensionTable[n].exts].category
    ELSE "Other"

C16_Category(type, ext) ==
    CASE type = "photo" -> "Images"
      [] type = "video" -> "Videos"
      [] type = "audio" -> "Audio"
      [] type = "document" -> C16_GroupCategory(ext)
      [] OTHER -> "Other"

C16_HeuristicClassification ==
    /\ ret.op = "analyze_file_name" =>
           /\ C16_IsExtension(ret.val.extension, ret.arg.name)
           /\ ret.val.category = C16_Category(ret.arg.type, ret.val.extension)
           /\ ret.val.tags = <<>>
           /\ ret.val.ai_analyzed = FALSE
    /\ (ret.op = "analyze_file_name" /\ ret.arg.name = NamePdf
        /\ ret.arg.type = "document") =>
           /\ ret.val.category = "Documents"
           /\ ret.val.extension = <<"p", "d", "f">>

\* REPORT.PdF was classified as a document: the extension is pdf
C16_Witness ==
    /\ ret.op = "analyze_file_name"
    /\ ret.arg.name = <<"R", "E", "P", "O", "R", "T", ".", "P", "d", "F">>
    /\ ret.arg.type = "document"
    /\ ret.val.extension = <<"p", "d", "f">>
    /\ ret.val.category = "Documents"

(***************************************************************************)
(* C17: analyze_file_with_ai always returns a record, never an exception;  *)
(* when the key is not set, or the call, the JSON parsing or the reading   *)
(* of the answer raises, the record is the one analyze_file_name returns   *)
(* for the same name and type, with the AI flag false and no tags.         *)
(***************************************************************************)
C17_AiFallsBackToHeuristic ==
    ret.op = "analyze_file_with_ai" =>
        /\ ret.val # Raised
        /\ (~ret.arg.api_key \/ AiRaises(ret.arg.response)) =>
               /\ ret.val = analyze_file_name(ret.arg.name, ret.arg.type, clock)
               /\ ret.val.ai_analyzed = FALSE
               /\ ret.val.tags = <<>>

\* the key is set and the answer's tags are null: slicing them raised, and
\* a.py came back as the heuristic classifier's Code / py
C17_Witness ==
    /\ ret.op = "analyze_file_with_ai"
    /\ ret.arg.api_key
    /\ ret.arg.response.kind = "object"
    /\ ret.arg.response.tags = JNull
    /\ ret.arg.name = NamePy /\ ret.arg.type = "document"
    /\ ret.val.category = "Code"
    /\ ret.val.extension = <<"p", "y">>
    /\ ~ret.val.ai_analyzed

(***************************************************************************)
(* C18: in every reachable state every record of file_metadata has at most *)
(* 5 tags, however many the capability answered with, and no download      *)
(* (access tracking and preference update) changes the tags of a record.   *)
(***************************************************************************)
C18_TagsOfRecords == [id \in DOMAIN file_metadata |-> file_metadata[id].tags]

C18_AtMostFiveTags ==
    /\ [](\A id \in DOMAIN file_metadata : Len(file_metadata[id].tags) <= 5)
    /\ [][ \A u \in Users, f \in LinkIds :
               HandleDownload(u, f) => C18_TagsOfRecords' = C18_TagsOfRecords ]_vars

\* a document whose answer had 7 tags was stored with the first 5 and then
\* downloaded
C18_Witness ==
    \E id \in DOMAIN file_metadata :
        /\ file_metadata[id].tags = SubSeq(DEFAULT_TAGS, 1, 5)
        /\ file_metadata[id].access_count = 1
        /\ nops = 2

(***************************************************************************)
(* C19: in every reachable state every identifier of the catalog has a     *)
(* metadata record (file_metadata is a mapping, so it has one at most).    *)
(***************************************************************************)
C19_EveryFileHasMetadata ==
    \A id \in FileIds : id \in DOMAIN file_metadata

(***************************************************************************)
(* C20: across every step, every identifier of the catalog stays in the    *)
(* catalog and keeps its Telegram file and its uploader.                   *)
(***************************************************************************)
C20_LinksKeepWorking ==
    [][ \A i \in 1..Len(stored_files) :
            \E j \in 1..Len(stored_files') :
                /\ stored_files'[j].id = stored_files[i].id
                /\ stored_files'[j].file_id = stored_files[i].file_id
                /\ stored_files'[j].from_user_id = stored_files[i].from_user_id ]_vars

(***************************************************************************)
(* C21: across every step of every sequence of preference operations,      *)
(* each entry of favorite_categories and favorite_tags of every user is a  *)
(* non-negative integer, and a step never removes a user's record, never   *)
(* removes an entry and never lowers its weight.                           *)
(***************************************************************************)
C21_WeightsAreCounts ==
    \A key \in DOMAIN user_preferences :
        /\ \A c \in DOMAIN user_preferences[key].favorite_categories :
               user_preferences[key].favorite_categories[c] \in Nat
        /\ \A t \in DOMAIN user_preferences[key].favorite_tags :
               user_preferences[key].favorite_tags[t] \in Nat

C21_Grown(old, new) ==
    \A k \in DOMAIN old : k \in DOMAIN new /\ new[k] >= old[k]

C21_Kept ==
    \A key \in DOMAIN user_preferences :
        /\ key \in DOMAIN user_preferences'
        /\ C21_Grown(user_preferences[key].favorite_categories,
                     user_preferences'[key].favorite_categories)
        /\ C21_Grown(user_preferences[key].favorite_tags,
                     user_preferences'[key].favorite_tags)

C21_WeightsNeverDecrease == [](C21_WeightsAreCounts) /\ [][C21_Kept]_vars

\* Carol showed interest in Code with the tags work and new twice: the
\* weights went from nothing to 3 and then to 6
C21_Witness ==
    /\ nops = 2
    /\ HasPrefs(Carol)
    /\ user_preferences[Str(Carol)].favorite_categories = [c \in {"Code"} |-> 6]
    /\ user_preferences[Str(Carol)].favorite_tags = [t \in {"work", "new"} |-> 6]

(***************************************************************************)
(* C22: write-through.  As long as no save has failed and a store's file   *)
(* was not unreadable or malformed at the start, the file holds the store  *)
(* (a missing file stands for the empty store) after every operation; and  *)
(* every operation that changes the preference store, or the metadata      *)
(* store, and meets no failing save leaves the store's file holding the    *)
(* store as the operation left it.                                         *)
(***************************************************************************)
C22_Collection(file) == IF file.state = "missing" THEN EmptyDict ELSE file.data

C22_InStep ==
    (pc # "load" /\ io_faults = MaxFaults) =>
        /\ disk[USER_PREFERENCES].state \in {"json", "missing"} =>
               C22_Collection(disk[USER_PREFERENCES]) = user_preferences
        /\ disk[FILE_METADATA].state \in {"json", "missing"} =>
               C22_Collection(disk[FILE_METADATA]) = file_metadata

C22_Written ==
    (pc # "load" /\ io_faults' = io_faults) =>
        /\ user_preferences' # user_preferences =>
               disk'[USER_PREFERENCES] = json_dump(user_preferences')
        /\ file_metadata' # file_metadata =>
               disk'[FILE_METADATA] = json_dump(file_metadata')

C22_WriteThrough == [](C22_InStep) /\ [][C22_Written]_vars

\* the preference file was unusable at the start; Carol then followed the
\* link of the first document and uploaded a document, no save failed: the
\* files hold the two stores, with the record of the access
C22_Witness ==
    /\ nops = 2
    /\ io_faults = MaxFaults
    /\ Len(stored_files) = 5
    /\ {stored_files[1].id, stored_files[5].id} \subseteq DOMAIN file_metadata
    /\ file_metadata[stored_files[1].id].access_count = 1
    /\ disk[FILE_METADATA] = json_dump(file_metadata)
    /\ disk[USER_PREFERENCES] = json_dump(user_preferences)
    /\ DOMAIN user_preferences = {Str(Carol)}

(***************************************************************************)
(* C23: a save that fails, at any point and also after the target file was *)
(* opened for writing, leaves the file as it was before the save: after    *)
(* every step each file is as before the step or holds its store as the    *)
(* step left it, and a step that only saves changes no store.              *)
(***************************************************************************)
C23_FileKeptOrWritten ==
    \A path \in Paths :
        \/ disk'[path] = disk[path]
        \/ disk'[path] = json_dump(InMemory(path, stored_files', file_metadata',
                                            user_preferences'))

C23_FailedSaveKeepsFile ==
    [][ /\ C23_FileKeptOrWritten
        /\ SaveAllData =>
               UNCHANGED <<stored_files, file_metadata, user_preferences>> ]_vars

(***************************************************************************)
(* C24: a load that fails at startup (the file is missing, unreadable or   *)
(* malformed) does not stop the startup and leaves that store empty, and   *)
(* each of the metadata store and the preference store is loaded from its  *)
(* own file whatever became of the other.                                  *)
(***************************************************************************)
C24_Loaded(path) ==
    InMemory(path, stored_files', file_metadata', user_preferences')
        = IF disk[path].state = "json" THEN disk[path].data ELSE EmptyDict

C24_FailedLoadLeavesEmpty ==
    [][ pc = "load" =>
            /\ pc' = "poll"
            /\ C24_Loaded(FILE_METADATA)
            /\ C24_Loaded(USER_PREFERENCES) ]_vars

\* the metadata file was malformed and the preference file good: the bot
\* polls with no metadata and with Alice's preferences
C24_Witness ==
    /\ pc = "poll"
    /\ nops = 0
    /\ disk[FILE_METADATA] = FileMalformed
    /\ file_metadata = EmptyDict
    /\ disk[USER_PREFERENCES].state = "json"
    /\ HasPrefs(Alice)
    /\ user_preferences = disk[USER_PREFERENCES].data

(***************************************************************************)
(* C25: get_recommendations, get_similar_files and                         *)
(* organize_files_by_category are read-only: a call leaves the catalog,    *)
(* the metadata store and the preference store (and their files) as they   *)
(* were, and the same call made again on the stores as the call left them  *)
(* returns the same result.                                                *)
(***************************************************************************)
C25_ReadOps == {"recommend", "files", "similar"}

\* what the call ret records returns when made now
C25_Again ==
    IF ret.op = "recommend"
    THEN get_recommendations(ret.arg, stored_files, RecommendCount)
    ELSE IF ret.op = "files"
    THEN organize_files_by_category(UserFiles(stored_files, ret.arg))
    ELSE get_similar_files(ret.arg, stored_files, SimilarCount)

C25_SameAgain == ret.op \in C25_ReadOps => ret.val = C25_Again

C25_StoresKept ==
    ret'.op \in C25_ReadOps =>
        UNCHANGED <<stored_files, file_metadata, user_preferences, disk>>

C26_Post(file_id) ==
    /\ user_preferences' = user_preferences
    /\ stored_files' = stored_files
    /\ DOMAIN file_metadata' = DOMAIN file_metadata
    /\ \A f \in DOMAIN file_metadata \ {file_id} : file_metadata'[f] = file_metadata[f]
    /\ file_id \in DOMAIN file_metadata =>
           file_metadata'[file_id] =
               [file_metadata[file_id] EXCEPT
                   !.last_accessed = file_metadata'[file_id].last_accessed,
                   !.access_count = file_metadata'[file_id].access_count]

C26_TrackChangesTwoFields ==
    [][ \A f \in FirstFileIds : TrackFileAccess(f) => C26_Post(f) ]_vars

\* one access of a document classified before was tracked: its record has
\* the count 1 and the time of the access, later than its creation
C26_Witness ==
    /\ nops = 1
    /\ \E f \in FirstFileIds \cap DOMAIN file_metadata :
           /\ file_metadata[f].access_count = 1
           /\ file_metadata[f].last_accessed = clock - 1
           /\ file_metadata[f].created_at < file_metadata[f].last_accessed
    /\ \E f \in FirstFileIds : f \notin DOMAIN file_metadata

(***************************************************************************)
(* C27: in the polling bot each update is handled to completion before     *)
(* the handling of the next one starts: at most one handle_update call is  *)
(* in progress, what a call has read of a record is still the record when  *)
(* it writes, every call that returns leaves the stores as handle_download *)
(* run in one piece on the stores it found, and no increment is lost: the  *)
(* access_count of a record is the number of calls that tracked it.        *)
(***************************************************************************)
C27_OneAtATime == Len(inflight) <= 1

C27_NothingStale ==
    \A i \in DOMAIN inflight :
        /\ inflight[i].at = "track_write" =>
               inflight[i].count = file_metadata[HandledId(inflight[i])].access_count
        /\ inflight[i].at = "prefs_write" =>
               inflight[i].prefs = user_preferences[Str(inflight[i].update.user_id)]

\* the calls that went through track_file_access for the record unique_id
C27_Tracked(unique_id) ==
    Cardinality({k \in DOMAIN log :
                    /\ log[k].at = "send"
                    /\ log[k].ev \in {"return", "raise"}
                    /\ RefMetaId(stored_files, Update(log[k].id).link) = unique_id})
    + Cardinality({i \in DOMAIN inflight :
                      /\ inflight[i].at \in {"prefs", "prefs_write", "send"}
                      /\ HandledId(inflight[i]) = unique_id})

C27_NoIncrementLost ==
    \A unique_id \in DOMAIN file_metadata :
        file_metadata[unique_id].access_count = C27_Tracked(unique_id)

\* the step is the return of the call inflight[i]
C27_Returns(i) ==
    /\ Len(log') = Len(log) + 1
    /\ log'[Len(log')] = Event("return", inflight[i].update.update_id, "send")

C27_InOnePiece ==
    \A i \in DOMAIN inflight :
        C27_Returns(i) =>
            LET w == handle_download(inflight[i].before, inflight[i].update.user_id,
                                     inflight[i].update.link)
            IN  /\ stored_files' = w.sf
                /\ file_metadata' = w.fm
                /\ user_preferences' = w.up
                /\ clock' = w.clock

C27_HandledToCompletion ==
    /\ [](C27_OneAtATime /\ C27_NothingStale /\ C27_NoIncrementLost)
    /\ [][C27_InOnePiece]_vars

\* Alice followed the link of document 3 twice, one update after the
\* other: both accesses are counted
C27_Witness ==
    /\ inflight = <<>>
    /\ log = << Event("start", 1, "start"), Event("return", 1, "send"),
                Event("start", 2, "start"), Event("return", 2, "send") >>
    /\ file_metadata[3].access_count = 2
    /\ stored_files[1].downloads = 2

(***************************************************************************)
(* C28: in simple_bot.main the offset never decreases and moves past an    *)
(* update only when handle_update returned for it; an update handled to    *)
(* completion is never handled again; when a call raises, the rest of the  *)
(* result is skipped, the offset stays, and the next call is for the same  *)
(* update.                                                                 *)
(***************************************************************************)
C28_IsLast(ev) == Len(log') = Len(log) + 1 /\ log'[Len(log')].ev = ev

C28_OffsetMoves ==
    /\ offset' >= offset
    /\ offset' # offset =>
           /\ C28_IsLast("return")
           /\ offset' = log'[Len(log')].id + 1
    /\ C28_IsLast("raise") => batch' = <<>> /\ pc' = "poll" /\ offset' = offset
    /\ C28_IsLast("start") => log'[Len(log')].id >= offset

C28_History ==
    \A j \in DOMAIN log :
        /\ log[j].ev = "return" =>
               /\ offset > log[j].id
               /\ \A k \in DOMAIN log : k > j => log[k].id # log[j].id
        /\ (log[j].ev = "raise" /\ j < Len(log)) =>
               log[j + 1] = Event("start", log[j].id, "start")

C28_OffsetPastReturnedOnly ==
    \A id \in 1..MaxUpdates :
        offset > id => \E j \in DOMAIN log : log[j] = Event("return", id, "send")

C28_OffsetDiscipline ==
    /\ [](C28_History /\ C28_OffsetPastReturnedOnly)
    /\ [][C28_OffsetMoves]_vars

\* a result with the updates 1 to 3: 1 was handled, 2 raised when the file
\* was sent, 3 was skipped; the next poll gave 2 again, which was handled
C28_Witness ==
    /\ offset = 3
    /\ log = << Event("start", 1, "start"), Event("return", 1, "send"),
                Event("start", 2, "start"), Event("raise", 2, "send"),
                Event("start", 2, "start"), Event("return", 2, "send") >>
    /\ batch = <<3>>

(***************************************************************************)
(* C29: after a user downloads a file f that has a metadata record (or     *)
(* uploads it as a document), get_recommendations does not return f to     *)
(* that user as long as the user has accessed fewer than 10 other distinct *)
(* files with metadata since; with the 10th, f leaves recently_accessed    *)
(* and can be recommended again.  In recently_accessed the place of f,     *)
(* less one, counts those other files: an access of f puts f first, an     *)
(* access of a file not accessed since moves f one place back, and out     *)
(* from the place RecentLimit; nothing else moves f.  No file of the list  *)
(* is recommended.                                                         *)
(***************************************************************************)
C29_Recent(up, user_id) ==
    IF Str(user_id) \in DOMAIN up THEN up[Str(user_id)].recently_accessed ELSE <<>>

\* the place of file_id in a list, 0 when it is not there
C29_Place(recent, file_id) ==
    IF InSeq(file_id, recent)
    THEN CHOOSE i \in 1..Len(recent) : recent[i] = file_id
    ELSE 0

\* the place of f after an access of g: g is f; f was not in the list; g
\* was accessed since f; g is one more file accessed since f
C29_PlaceAfter(recent, f, g) ==
    IF f = g THEN 1
    ELSE IF C29_Place(recent, f) = 0 THEN 0
    ELSE IF 0 < C29_Place(recent, g) /\ C29_Place(recent, g) < C29_Place(recent, f)
    THEN C29_Place(recent, f)
    ELSE IF C29_Place(recent, f) < RecentLimit THEN C29_Place(recent, f) + 1
    ELSE 0

\* the step is a download of file_id by user_id, or its upload as a document
C29_Accesses(user_id, file_id) ==
    \/ HandleDownload(user_id, file_id)
    \/ HandleDocument(user_id, NamePdf, file_id, Unavailable)

C29_Moves(user_id) ==
    \/ \E g \in DOMAIN file_metadata \cup NewIds :
           /\ C29_Accesses(user_id, g)
           /\ \A f \in DOMAIN file_metadata :
                  C29_Place(C29_Recent(user_preferences', user_id), f)
                      = C29_PlaceAfter(C29_Recent(user_preferences, user_id), f, g)
    \/ C29_Recent(user_preferences', user_id) = C29_Recent(user_preferences, user_id)

C29_NotRecommended ==
    \A u \in Users :
        \A k \in 1..Len(C29_Recent(user_preferences, u)) :
            ~InSeq(C29_Recent(user_preferences, u)[k],
                   get_recommendations(u, stored_files, Len(stored_files)))

C29_RecentlyAccessedNotRecommended ==
    [](C29_NotRecommended) /\ [][\A u \in Users : C29_Moves(u)]_vars

\* Carol had accessed the documents 1 to 10 in turn and then followed the
\* link of document 11, the tenth other file since document 1: document 1
\* has left her list and is recommended to her again
C29_Witness ==
    /\ nops = 1
    /\ RecentOf(Carol) = <<11, 10, 9, 8, 7, 6, 5, 4, 3, 2>>
    /\ stored_files[11].downloads = 1
    /\ InSeq(1, get_recommendations(Carol, stored_files, Len(stored_files)))
    /\ ~InSeq(2, get_recommendations(Carol, stored_files, Len(stored_files)))

(***************************************************************************)
(* C30: the two browsing views agree: the files /category C lists for a    *)
(* user are the files organize_files_by_category gives under C for the     *)
(* user's files, as /files shows them (none when it has no such            *)
(* category), also for C = Other and for files without a metadata record   *)
(* or with an unrecognized category.                                       *)
(***************************************************************************)
C30_ListedByFiles(user_id, category) ==
    Range(DictGet(organize_files_by_category(UserFiles(stored_files, user_id)),
                  category, <<>>))

C30_ViewsAgree ==
    ret.op = "category" =>
        Range(ret.val) = C30_ListedByFiles(ret.arg[1], ret.arg[2])

====
